---- MODULE Spec2Model ----
(***************************************************************************)
(* Chapter-outline generation, validation and persistence of the book      *)
(* pipeline web application (src/chat_interface.py).                        *)
(*                                                                         *)
(* Text is modelled as a sequence of character tokens.  The tokens are     *)
(*   "SP"  a blank (any whitespace that is not a line break)               *)
(*   "NL"  a line break                                                    *)
(*   "Ch"  the word "Chapter" (the patterns are case-insensitive)          *)
(*   ":"   a colon                                                         *)
(*   "EM"  an em dash or en dash,  "-"  a hyphen                           *)
(*   "0".."9"  decimal digits                                              *)
(*   any other token ("a", "b", "Untitled", ...) is an ordinary word.      *)
(***************************************************************************)
EXTENDS Integers, Sequences, FiniteSets, TLC

----------------------------------------------------------------------------
(* Character classes of the regular expressions *)

\* \s
WS == {"SP", "NL"}

\* [—–-]
Dashes == {"EM", "-"}

DigitChars == <<"0", "1", "2", "3", "4", "5", "6", "7", "8", "9">>

\* \d
Digits == {DigitChars[i] : i \in 1..10}

DigitVal(c) == (CHOOSE i \in 1..10 : DigitChars[i] = c) - 1

----------------------------------------------------------------------------
(* String primitives *)

RECURSIVE LStrip(_)
\* str.lstrip(): drop leading whitespace
LStrip(s) ==
    IF s # <<>> /\ Head(s) \in WS THEN LStrip(Tail(s)) ELSE s

RECURSIVE RStrip(_)
\* str.rstrip(): drop trailing whitespace
RStrip(s) ==
    IF s # <<>> /\ s[Len(s)] \in WS THEN RStrip(SubSeq(s, 1, Len(s) - 1)) ELSE s

\* str.strip()
Strip(s) == RStrip(LStrip(s))

RECURSIVE CollapseWs(_)
\* re.sub(r"\s+", " ", s): every whitespace run becomes one blank
CollapseWs(s) ==
    IF s = <<>> THEN <<>>
    ELSE IF Head(s) \in WS
         THEN <<"SP">> \o CollapseWs(LStrip(s))
         ELSE <<Head(s)>> \o CollapseWs(Tail(s))

\* First index of a token of class cls in s, 0 when there is none
FirstIndex(s, cls) ==
    IF \E i \in 1..Len(s) : s[i] \in cls
    THEN CHOOSE i \in 1..Len(s) :
            s[i] \in cls /\ \A j \in 1..(i - 1) : s[j] \notin cls
    ELSE 0

RECURSIVE SplitLines(_)
\* str.splitlines(): a trailing line break opens no further line
SplitLines(s) ==
    IF s = <<>> THEN <<>>
    ELSE LET i == FirstIndex(s, {"NL"})
         IN IF i = 0 THEN <<s>>
            ELSE <<SubSeq(s, 1, i - 1)>> \o SplitLines(SubSeq(s, i + 1, Len(s)))

RECURSIVE Join(_, _)
\* sep.join(parts)
Join(parts, sep) ==
    IF parts = <<>> THEN <<>>
    ELSE IF Len(parts) = 1 THEN parts[1]
    ELSE parts[1] \o sep \o Join(Tail(parts), sep)

RECURSIVE LeadingDigits(_)
\* The longest prefix of s made of digits (the greedy \d+)
LeadingDigits(s) ==
    IF s # <<>> /\ Head(s) \in Digits
    THEN <<Head(s)>> \o LeadingDigits(Tail(s))
    ELSE <<>>

RECURSIVE StrToInt(_)
\* int(digits) for a non-empty run of decimal digits
StrToInt(ds) ==
    IF ds = <<>> THEN 0
    ELSE 10 * StrToInt(SubSeq(ds, 1, Len(ds) - 1)) + DigitVal(ds[Len(ds)])

RECURSIVE NatToStr(_)
NatToStr(n) ==
    IF n < 10 THEN <<DigitChars[n + 1]>>
    ELSE NatToStr(n \div 10) \o <<DigitChars[(n % 10) + 1]>>

\* str(n) / f"{n}" for an integer
IntToStr(n) == IF n < 0 THEN <<"-">> \o NatToStr(-n) ELSE NatToStr(n)

----------------------------------------------------------------------------
(* Chapter entry parser *)

\* _normalise_whitespace
NormaliseWhitespace(value) == Strip(CollapseWs(value))

NoMatch == [matched |-> FALSE, number |-> 0, rest |-> <<>>]

\* _CHAPTER_HEADER_PATTERN.match(line):
\*   ^\s*Chapter\s*:\s*Chapter\s+(\d+)\s*[—–-]\s*(.*)$
MatchChapterHeader(line) ==
    LET a == LStrip(line) IN
    IF a = <<>> \/ Head(a) # "Ch" THEN NoMatch ELSE
    LET b == LStrip(Tail(a)) IN
    IF b = <<>> \/ Head(b) # ":" THEN NoMatch ELSE
    LET c == LStrip(Tail(b)) IN
    IF c = <<>> \/ Head(c) # "Ch" THEN NoMatch ELSE
    LET d == Tail(c) IN
    IF d = <<>> \/ Head(d) \notin WS THEN NoMatch ELSE
    LET e == LStrip(d)
        digits == LeadingDigits(e)
    IN
    IF digits = <<>> THEN NoMatch ELSE
    LET f == LStrip(SubSeq(e, Len(digits) + 1, Len(e))) IN
    IF f = <<>> \/ Head(f) \notin Dashes THEN NoMatch ELSE
    [matched |-> TRUE, number |-> StrToInt(digits), rest |-> LStrip(Tail(f))]

\* _LEGACY_CHAPTER_HEADING_PATTERN.match(line):
\*   ^\s*Chapter\s+(\d+)\s*:\s*(.*)$
MatchLegacyHeading(line) ==
    LET a == LStrip(line) IN
    IF a = <<>> \/ Head(a) # "Ch" THEN NoMatch ELSE
    LET d == Tail(a) IN
    IF d = <<>> \/ Head(d) \notin WS THEN NoMatch ELSE
    LET e == LStrip(d)
        digits == LeadingDigits(e)
    IN
    IF digits = <<>> THEN NoMatch ELSE
    LET f == LStrip(SubSeq(e, Len(digits) + 1, Len(e))) IN
    IF f = <<>> \/ Head(f) # ":" THEN NoMatch ELSE
    [matched |-> TRUE, number |-> StrToInt(digits), rest |-> LStrip(Tail(f))]

\* _extract_title_summary: split once on the first \s*[—–-]\s*
ExtractTitleSummary(raw_content) ==
    IF raw_content = <<>> THEN <<<<>>, <<>>>>
    ELSE LET d == FirstIndex(raw_content, Dashes) IN
         IF d > 0
         THEN <<Strip(SubSeq(raw_content, 1, d - 1)),
                Strip(SubSeq(raw_content, d + 1, Len(raw_content)))>>
         ELSE <<Strip(raw_content), <<>>>>

Entry(n, t, s) == [number |-> n, title |-> t, summary |-> s]

\* "current is None" is active = FALSE
NoCurrent == [active |-> FALSE, number |-> 0, title |-> <<>>, lines |-> <<>>]

\* The entry a structured section closes with
StructuredEntry(current) ==
    Entry(current.number, current.title,
          NormaliseWhitespace(Join(current.lines, <<"SP">>)))

RECURSIVE StructuredLoop(_, _, _)
\* The loop of _parse_structured_chapter_entries over the remaining lines
StructuredLoop(lines, entries, current) ==
    IF lines = <<>>
    THEN IF current.active THEN Append(entries, StructuredEntry(current)) ELSE entries
    ELSE LET line == Head(lines)
             match == MatchChapterHeader(line)
         IN IF match.matched
            THEN StructuredLoop(
                    Tail(lines),
                    IF current.active
                    THEN Append(entries, StructuredEntry(current)) ELSE entries,
                    [active |-> TRUE, number |-> match.number,
                     title |-> NormaliseWhitespace(match.rest), lines |-> <<>>])
            ELSE IF ~current.active \/ Strip(line) = <<>>
                 THEN StructuredLoop(Tail(lines), entries, current)
                 ELSE StructuredLoop(Tail(lines), entries,
                         [current EXCEPT !.lines = Append(@, Strip(line))])

\* _parse_structured_chapter_entries
ParseStructuredChapterEntries(text) ==
    StructuredLoop(SplitLines(text), <<>>, NoCurrent)

\* The entry a legacy section closes with (current.title holds the raw text)
LegacyEntry(current) ==
    LET ts == ExtractTitleSummary(NormaliseWhitespace(current.title))
    IN Entry(current.number, ts[1], ts[2])

RECURSIVE LegacyLoop(_, _, _)
\* The loop of _parse_legacy_chapter_entries over the remaining lines
LegacyLoop(lines, entries, current) ==
    IF lines = <<>>
    THEN IF current.active THEN Append(entries, LegacyEntry(current)) ELSE entries
    ELSE LET line == Head(lines)
             match == MatchLegacyHeading(line)
         IN IF match.matched
            THEN LegacyLoop(
                    Tail(lines),
                    IF current.active
                    THEN Append(entries, LegacyEntry(current)) ELSE entries,
                    [active |-> TRUE, number |-> match.number,
                     title |-> Strip(match.rest), lines |-> <<>>])
            ELSE IF ~current.active \/ Strip(line) = <<>>
                 THEN LegacyLoop(Tail(lines), entries, current)
                 ELSE LegacyLoop(Tail(lines), entries,
                         [current EXCEPT !.title =
                             IF @ # <<>> THEN @ \o <<"SP">> \o Strip(line)
                             ELSE Strip(line)])

\* _parse_legacy_chapter_entries
ParseLegacyChapterEntries(text) ==
    LegacyLoop(SplitLines(text), <<>>, NoCurrent)

\* A parser that tries the legacy grammar first
ParseChapterEntriesLegacyFirst(text) ==
    IF text = <<>> THEN <<>>
    ELSE LET legacy == ParseLegacyChapterEntries(text)
         IN IF legacy # <<>> THEN legacy
            ELSE ParseStructuredChapterEntries(text)

\* _parse_chapter_entries: the structured grammar first, the legacy one only
\* when the structured result is empty
ParseChapterEntries(text) ==
    IF text = <<>> THEN <<>>
    ELSE LET structured == ParseStructuredChapterEntries(text)
         IN IF structured # <<>> THEN structured
            ELSE ParseLegacyChapterEntries(text)

----------------------------------------------------------------------------
(* Serialiser, renderer, validator *)

\* _serialise_chapter_entries
SerialiseChapterEntries(entries) ==
    [i \in 1..Len(entries) |->
        Entry(entries[i].number,
              NormaliseWhitespace(entries[i].title),
              NormaliseWhitespace(entries[i].summary))]

\* "Untitled Chapter"
UntitledChapter == <<"Untitled", "SP", "Ch">>

\* A renderer that keeps the summary on the header line
RenderSectionInline(entry) ==
    LET title == Strip(entry.title)
        summary == Strip(entry.summary)
        header_title == IF title # <<>> THEN title ELSE UntitledChapter
        header == Strip(<<"Ch", ":", "SP", "Ch", "SP">> \o IntToStr(entry.number)
                        \o <<"SP", "EM", "SP">> \o header_title)
    IN Strip(Join(IF summary # <<>> THEN <<header, summary>> ELSE <<header>>,
                  <<"SP">>))

\* One section of _render_chapter_entries: header line, then the summary
RenderSection(entry) ==
    LET title == Strip(entry.title)
        summary == Strip(entry.summary)
        header_title == IF title # <<>> THEN title ELSE UntitledChapter
        header == Strip(<<"Ch", ":", "SP", "Ch", "SP">> \o IntToStr(entry.number)
                        \o <<"SP", "EM", "SP">> \o header_title)
    IN Strip(Join(IF summary # <<>> THEN <<header, summary>> ELSE <<header>>,
                  <<"NL">>))

\* _render_chapter_entries
RenderChapterEntries(entries) ==
    Strip(Join([i \in 1..Len(entries) |-> RenderSection(entries[i])],
               <<"NL", "NL">>))

\* The validator's messages: kind, and the two values the text names
Message(kind, a, b) == [kind |-> kind, a |-> a, b |-> b]

NoMessage == Message("", 0, 0)

RECURSIVE ValidateLoopNoFields(_, _, _)
\* A validator loop that does not look at titles and summaries
ValidateLoopNoFields(entries, index, seen_numbers) ==
    IF index > Len(entries) THEN NoMessage
    ELSE LET number == entries[index].number IN
         IF number \in seen_numbers THEN Message("duplicate", number, 0)
         ELSE IF number # index THEN Message("sequence", number, index)
         ELSE ValidateLoopNoFields(entries, index + 1, seen_numbers \cup {number})

RECURSIVE ValidateLoopNoSequence(_, _, _)
\* A validator loop that rejects duplicates but not numbers out of order
ValidateLoopNoSequence(entries, index, seen_numbers) ==
    IF index > Len(entries) THEN NoMessage
    ELSE LET number == entries[index].number IN
         IF number \in seen_numbers THEN Message("duplicate", number, 0)
         ELSE IF Strip(entries[index].title) = <<>>
                 \/ Strip(entries[index].summary) = <<>>
              THEN Message("fields", 0, 0)
         ELSE ValidateLoopNoSequence(entries, index + 1,
                                     seen_numbers \cup {number})

RECURSIVE ValidateLoopSequenceFirst(_, _, _)
\* A validator loop that compares the number with the position before it
\* looks for a duplicate
ValidateLoopSequenceFirst(entries, index, seen_numbers) ==
    IF index > Len(entries) THEN NoMessage
    ELSE LET number == entries[index].number IN
         IF number # index THEN Message("sequence", number, index)
         ELSE IF number \in seen_numbers THEN Message("duplicate", number, 0)
         ELSE IF Strip(entries[index].title) = <<>>
                 \/ Strip(entries[index].summary) = <<>>
              THEN Message("fields", 0, 0)
         ELSE ValidateLoopSequenceFirst(entries, index + 1,
                                        seen_numbers \cup {number})

RECURSIVE ValidateLoop(_, _, _)
\* The loop of _validate_chapter_outline from position index on: the message
\* of the first check that fails, NoMessage when none does
ValidateLoop(entries, index, seen_numbers) ==
    IF index > Len(entries) THEN NoMessage
    ELSE LET number == entries[index].number IN
         IF number \in seen_numbers THEN Message("duplicate", number, 0)
         ELSE IF number # index THEN Message("sequence", number, index)
         ELSE IF Strip(entries[index].title) = <<>>
                 \/ Strip(entries[index].summary) = <<>>
              THEN Message("fields", 0, 0)
         ELSE ValidateLoop(entries, index + 1, seen_numbers \cup {number})

\* A validator that does not compare the count
ValidateChapterOutlineNoCount(response, expected_count) ==
    LET entries == ParseChapterEntries(response)
        message == ValidateLoop(entries, 1, {})
    IN [ok |-> message = NoMessage, entries |-> entries, message |-> message]

\* _validate_chapter_outline: (is_valid, entries, error_message)
ValidateChapterOutline(response, expected_count) ==
    LET entries == ParseChapterEntries(response) IN
    IF Len(entries) # expected_count
    THEN [ok |-> FALSE, entries |-> entries,
          message |-> Message("count", expected_count, Len(entries))]
    ELSE LET message == ValidateLoop(entries, 1, {})
         IN [ok |-> message = NoMessage, entries |-> entries, message |-> message]

----------------------------------------------------------------------------
(* Stored chapter lists: the JSON text of a chapter_list column              *)
(*                                                                         *)
(* A column value is None, the empty string, a string json.loads rejects,  *)
(* or a JSON document.  A document is a list of items or something else;   *)
(* an item is an object (dict) or something else.  A JSON scalar is        *)
(*   t = "int"     an integer n          t = "str"   the string s          *)
(*   t = "float"   a finite float with integer part n                      *)
(*   t = "inf"     Infinity / 1e999      t = "nan"   NaN                   *)
(*   t = "null"    null                  t = "missing"  the key is absent  *)
(***************************************************************************)

JInt(n) == [t |-> "int", n |-> n, s |-> <<>>]
JStr(s) == [t |-> "str", n |-> 0, s |-> s]
JOther(t) == [t |-> t, n |-> 0, s |-> <<>>]
JFloat(n) == [t |-> "float", n |-> n, s |-> <<>>]

JObject(number, title, summary) ==
    [isDict |-> TRUE, number |-> number, title |-> title, summary |-> summary]

\* A list item that is not an object (a number, a string, a nested list)
JNonObject ==
    [isDict |-> FALSE, number |-> JOther("missing"), title |-> JOther("missing"),
     summary |-> JOther("missing")]

ColumnNone == [kind |-> "none", items |-> <<>>]
ColumnEmpty == [kind |-> "empty", items |-> <<>>]
\* text that is not JSON
ColumnInvalid == [kind |-> "invalid", items |-> <<>>]
\* JSON that is not a list (an object, a number, a string, null)
ColumnNonList == [kind |-> "nonlist", items |-> <<>>]
ColumnList(items) == [kind |-> "list", items |-> items]

\* json.dumps(serialised_entries, ensure_ascii=False)
JsonDumps(entries) ==
    ColumnList([i \in 1..Len(entries) |->
        JObject(JInt(entries[i].number), JStr(entries[i].title),
                JStr(entries[i].summary))])

Coerced(error, n) == [error |-> error, n |-> n]

\* int(text) for a string: blanks trimmed, an optional sign, decimal digits
IntOfStr(text) ==
    LET trimmed == Strip(text)
        signed == trimmed # <<>> /\ Head(trimmed) \in {"-", "+"}
        body == IF signed THEN Tail(trimmed) ELSE trimmed
    IN IF body # <<>> /\ LeadingDigits(body) = body
       THEN Coerced("", IF signed /\ Head(trimmed) = "-"
                        THEN -StrToInt(body) ELSE StrToInt(body))
       ELSE Coerced("ValueError", 0)

\* int(number) for a JSON scalar: the value, or the exception it raises
IntOf(number) ==
    CASE number.t = "int" -> Coerced("", number.n)
      [] number.t = "float" -> Coerced("", number.n)
      [] number.t = "str" -> IntOfStr(number.s)
      [] number.t = "nan" -> Coerced("ValueError", 0)
      [] number.t = "inf" -> Coerced("OverflowError", 0)
      [] OTHER -> Coerced("TypeError", 0)

\* str(value).strip() for the title or summary of a stored item
StrOf(value) ==
    CASE value.t = "str" -> Strip(value.s)
      [] value.t = "int" -> IntToStr(value.n)
      [] value.t = "null" -> <<"None">>
      [] OTHER -> <<>>

Loaded(raised, entries) == [raised |-> raised, entries |-> entries]

RECURSIVE CleanLoop(_, _)
\* The loop of _load_chapter_list over the items of the decoded list.  Only
\* TypeError and ValueError are caught; any other exception leaves the loop.
CleanLoop(items, cleaned) ==
    IF items = <<>> THEN Loaded("", cleaned)
    ELSE LET entry == Head(items) IN
         IF ~entry.isDict THEN CleanLoop(Tail(items), cleaned)
         ELSE LET number_int == IntOf(entry.number) IN
              IF number_int.error \in {"TypeError", "ValueError"}
              THEN CleanLoop(Tail(items), cleaned)
              ELSE IF number_int.error # ""
              THEN Loaded(number_int.error, <<>>)
              ELSE CleanLoop(Tail(items),
                     Append(cleaned, Entry(number_int.n, StrOf(entry.title),
                                           StrOf(entry.summary))))

\* The fallback branch of _load_chapter_list
LoadFallback(fallback_text) ==
    LET parsed == ParseChapterEntries(fallback_text)
    IN IF parsed # <<>> THEN SerialiseChapterEntries(parsed) ELSE <<>>

\* _load_chapter_list(serialised, fallback_text); a fallback_text of None
\* and the empty text are both the empty sequence
LoadChapterList(serialised, fallback_text) ==
    IF serialised.kind = "list"
    THEN LET cleaned == CleanLoop(serialised.items, <<>>) IN
         IF cleaned.raised # "" \/ cleaned.entries # <<>> THEN cleaned
         ELSE Loaded("", LoadFallback(fallback_text))
    ELSE Loaded("", LoadFallback(fallback_text))

----------------------------------------------------------------------------
(* Draft defaults: which chapter the drafting form pre-selects               *)
(*                                                                         *)
(* act_chapter_lists maps each act to its entry list, in the order 1, 2, 3 *)
(* in which _collect_project_chapter_lists builds it.  chapter_draft_lookup*)
(* maps a key "act-number" to the content of the saved draft; a key it     *)
(* does not hold reads as the empty content.                               *)
(***************************************************************************)

\* f"{act_number}-{number}"
DraftKey(act_number, number) == <<act_number, number>>

\* (chapter_draft_lookup.get(key) or {}).get("content", "")
DraftContent(chapter_draft_lookup, key) ==
    IF key \in DOMAIN chapter_draft_lookup THEN chapter_draft_lookup[key] ELSE <<>>

\* "if str(content).strip()" for the draft of (act_number, number)
HasDraft(chapter_draft_lookup, act_number, number) ==
    Strip(DraftContent(chapter_draft_lookup, DraftKey(act_number, number))) # <<>>

\* None as an Optional[Tuple[int, int]]
NoChapter == <<>>

RECURSIVE LastDraftedLoopFirst(_, _, _, _, _)
\* A scan that keeps the first drafted chapter it meets
LastDraftedLoopFirst(act_chapter_lists, chapter_draft_lookup, act_number, index, last_drafted) ==
    IF act_number > 3 THEN last_drafted
    ELSE IF index > Len(act_chapter_lists[act_number])
    THEN LastDraftedLoopFirst(act_chapter_lists, chapter_draft_lookup,
                              act_number + 1, 1, last_drafted)
    ELSE LET number == act_chapter_lists[act_number][index].number
         IN LastDraftedLoopFirst(
                act_chapter_lists, chapter_draft_lookup, act_number, index + 1,
                IF HasDraft(chapter_draft_lookup, act_number, number)
                   /\ last_drafted = NoChapter
                THEN <<act_number, number>> ELSE last_drafted)

RECURSIVE LastDraftedLoop(_, _, _, _, _)
\* The loops of _find_last_drafted_chapter from entry index of act_number on
LastDraftedLoop(act_chapter_lists, chapter_draft_lookup, act_number, index, last_drafted) ==
    IF act_number > 3 THEN last_drafted
    ELSE IF index > Len(act_chapter_lists[act_number])
    THEN LastDraftedLoop(act_chapter_lists, chapter_draft_lookup,
                         act_number + 1, 1, last_drafted)
    ELSE LET number == act_chapter_lists[act_number][index].number
         IN LastDraftedLoop(act_chapter_lists, chapter_draft_lookup,
                            act_number, index + 1,
                            IF HasDraft(chapter_draft_lookup, act_number, number)
                            THEN <<act_number, number>> ELSE last_drafted)

\* _find_last_drafted_chapter
FindLastDraftedChapter(act_chapter_lists, chapter_draft_lookup) ==
    LastDraftedLoop(act_chapter_lists, chapter_draft_lookup, 1, 1, NoChapter)

\* _suggest_next_chapter_after_last_draft: from the first entry that carries
\* the last drafted number, the first later entry without a draft
SuggestNextChapterAfterLastDraft(act_chapter_lists, chapter_draft_lookup) ==
    LET last_drafted ==
            FindLastDraftedChapter(act_chapter_lists, chapter_draft_lookup)
    IN IF last_drafted = NoChapter THEN NoChapter
       ELSE LET act_number == last_drafted[1]
                chapter_number == last_drafted[2]
                entries == act_chapter_lists[act_number]
                found == {i \in 1..Len(entries) :
                             entries[i].number = chapter_number}
            IN IF found = {} THEN NoChapter
               ELSE LET index == CHOOSE i \in found : \A j \in found : i <= j
                        open == {j \in (index + 1)..Len(entries) :
                                    ~HasDraft(chapter_draft_lookup, act_number,
                                              entries[j].number)}
                    IN IF open = {} THEN NoChapter
                       ELSE LET next == CHOOSE j \in open : \A k \in open : j <= k
                            IN <<act_number, entries[next].number>>

RECURSIVE LastUnfilledLoop(_, _, _, _, _)
\* The loops of _find_last_unfilled_chapter from entry index of act_number on
LastUnfilledLoop(act_chapter_lists, chapter_draft_lookup, act_number, index, last_missing) ==
    IF act_number > 3 THEN last_missing
    ELSE IF index > Len(act_chapter_lists[act_number])
    THEN LastUnfilledLoop(act_chapter_lists, chapter_draft_lookup,
                          act_number + 1, 1, last_missing)
    ELSE LET number == act_chapter_lists[act_number][index].number
         IN LastUnfilledLoop(act_chapter_lists, chapter_draft_lookup,
                             act_number, index + 1,
                             IF ~HasDraft(chapter_draft_lookup, act_number, number)
                             THEN <<act_number, number>> ELSE last_missing)

\* _find_last_unfilled_chapter
FindLastUnfilledChapter(act_chapter_lists, chapter_draft_lookup) ==
    LastUnfilledLoop(act_chapter_lists, chapter_draft_lookup, 1, 1, NoChapter)

RECURSIVE LastPlannedLoop(_, _, _, _)
\* The loops of _find_last_planned_chapter from entry index of act_number on
LastPlannedLoop(act_chapter_lists, act_number, index, last_planned) ==
    IF act_number > 3 THEN last_planned
    ELSE IF index > Len(act_chapter_lists[act_number])
    THEN LastPlannedLoop(act_chapter_lists, act_number + 1, 1, last_planned)
    ELSE LastPlannedLoop(act_chapter_lists, act_number, index + 1,
                         <<act_number, act_chapter_lists[act_number][index].number>>)

\* _find_last_planned_chapter
FindLastPlannedChapter(act_chapter_lists) ==
    LastPlannedLoop(act_chapter_lists, 1, 1, NoChapter)

----------------------------------------------------------------------------
(* Prompt construction and the retry engine's steps *)

\* "(no chapters available)"
NoChaptersAvailable == <<"(no chapters available)">>

\* The "Previous chapters for continuity" section of _build_chapter_prompt
ChapterSections(previous_chapters) ==
    [i \in 1..Len(previous_chapters) |->
        <<previous_chapters[i][1],
          IF Strip(previous_chapters[i][2]) # <<>>
          THEN Strip(previous_chapters[i][2]) ELSE NoChaptersAvailable>>]

\* _build_chapter_prompt: the sections of the prompt that vary within one
\* request.  has_feedback is "if feedback:", has_previous is
\* "if previous_response:" inside it.
BuildChapterPrompt(act_number, final_notes, previous_chapters, chapters_per_act, feedback, previous_response) ==
    [act_number |-> act_number,
     chapters_per_act |-> chapters_per_act,
     final_notes |-> final_notes,
     chapter_sections |-> ChapterSections(previous_chapters),
     has_feedback |-> feedback # NoMessage,
     feedback |-> feedback,
     has_previous |-> feedback # NoMessage /\ previous_response # <<>>,
     previous_response |->
        IF feedback # NoMessage THEN Strip(previous_response) ELSE <<>>]

\* The locals of _generate_single_act_chapters before its loop
EngineStart(act_number, final_notes, previous_chapters, chapters_per_act, max_attempts) ==
    [act_number |-> act_number,
     final_notes |-> final_notes,
     previous_chapters |-> previous_chapters,
     chapters_per_act |-> chapters_per_act,
     max_attempts |-> max_attempts,
     attempt |-> 0,
     prompt |-> BuildChapterPrompt(act_number, final_notes, previous_chapters,
                                   chapters_per_act, NoMessage, <<>>),
     last_response |-> <<>>,
     last_entries |-> <<>>,
     debug_messages |-> <<>>]

\* No engine is running
NoEngine == EngineStart(0, <<>>, <<>>, 0, 0)

\* A loop guard that is off by one
LoopGuardInclusive(attempt, max_attempts) == attempt <= max_attempts

\* "while attempt < max_attempts"
LoopGuard(attempt, max_attempts) == attempt < max_attempts

\* A generator response: None, or a text
ResponseNone == [isNone |-> TRUE, text |-> <<>>]
ResponseOf(text) == [isNone |-> FALSE, text |-> text]

\* "generator.generate_response(...) or ''", then .strip()
ResponseClean(response) ==
    Strip(IF response.isNone THEN <<>> ELSE response.text)

\* A line of the debug trail (the durations are left out)
DebugLine(kind, act_number, attempt, message, chapters, characters) ==
    [kind |-> kind, act_number |-> act_number, attempt |-> attempt,
     message |-> message, chapters |-> chapters, characters |-> characters]

\* The engine's return value: (formatted_text, entries, debug_messages, ok)
Returned(text, entries, debug, succeeded) ==
    [returned |-> TRUE, text |-> text, entries |-> entries, debug |-> debug,
     succeeded |-> succeeded]

NoReturn ==
    [returned |-> FALSE, text |-> <<>>, entries |-> <<>>, debug |-> <<>>,
     succeeded |-> FALSE]

\* "if is_valid:" branch: the value returned for a validated attempt
SuccessReturn(e, response_clean, entries) ==
    Returned(RenderChapterEntries(entries), entries,
             Append(e.debug_messages,
                    DebugLine("success", e.act_number, e.attempt, NoMessage,
                              Len(entries), Len(response_clean))),
             TRUE)

\* A failure path that keeps the entries of an earlier draft when the
\* latest draft has none
AfterFailureKeepEntries(e, response_clean, entries, error_message) ==
    [e EXCEPT
       !.debug_messages =
           Append(@, DebugLine("failure", e.act_number, e.attempt, error_message,
                               Len(entries), Len(response_clean))),
       !.last_response = response_clean,
       !.last_entries = IF entries # <<>> THEN entries ELSE @,
       !.prompt = BuildChapterPrompt(e.act_number, e.final_notes,
                                     e.previous_chapters, e.chapters_per_act,
                                     error_message, response_clean)]

\* A failure path that quotes the draft before the latest one
AfterFailureStale(e, response_clean, entries, error_message) ==
    [e EXCEPT
       !.debug_messages =
           Append(@, DebugLine("failure", e.act_number, e.attempt, error_message,
                               Len(entries), Len(response_clean))),
       !.last_response = response_clean,
       !.last_entries = entries,
       !.prompt = BuildChapterPrompt(e.act_number, e.final_notes,
                                     e.previous_chapters, e.chapters_per_act,
                                     error_message, e.last_response)]

\* The locals after an attempt that failed validation
AfterFailure(e, response_clean, entries, error_message) ==
    [e EXCEPT
       !.debug_messages =
           Append(@, DebugLine("failure", e.act_number, e.attempt, error_message,
                               Len(entries), Len(response_clean))),
       !.last_response = response_clean,
       !.last_entries = entries,
       !.prompt = BuildChapterPrompt(e.act_number, e.final_notes,
                                     e.previous_chapters, e.chapters_per_act,
                                     error_message, response_clean)]

\* A return after the loop that adds no line to the debug trail
ExhaustedReturnSilent(e) ==
    Returned(IF e.last_entries # <<>>
             THEN RenderChapterEntries(e.last_entries) ELSE e.last_response,
             e.last_entries, e.debug_messages, FALSE)

\* The code after the loop: the last draft is returned without validation
ExhaustedReturn(e) ==
    Returned(IF e.last_entries # <<>>
             THEN RenderChapterEntries(e.last_entries) ELSE e.last_response,
             e.last_entries,
             Append(e.debug_messages,
                    DebugLine("exhausted", e.act_number, e.max_attempts,
                              NoMessage, 0, 0)),
             FALSE)

----------------------------------------------------------------------------
(* Bounds and the inputs the model draws *)

\* Largest chapter count a request asks for
MaxChapters == 2

\* Largest max_attempts a direct call of the engine passes
MaxAttemptsArg == 3

\* Requests (chapter generation or manual edit) one behaviour handles
MaxRequests == 2

\* Pieces (sections or lines) of a text handed to the parser and the validator
MaxPieces == 3

\* Items of a stored JSON list handed to _load_chapter_list
MaxItems == 2

\* max_attempts: int = 3
DefaultMaxAttempts == 3

Acts == 1..3

EntryOne == Entry(1, <<"a">>, <<"b">>)
EntryTwo == Entry(2, <<"b">>, <<"a", "SP", "b">>)

\* "Chapter: Chapter 1 — a\nb"
ValidOne == RenderChapterEntries(<<EntryOne>>)
\* two well-formed sections, numbered 1 and 2
ValidTwo == RenderChapterEntries(<<EntryOne, EntryTwo>>)
\* "Chapter: Chapter 1 —\nb": a structured header without a title
EmptyTitle == <<"Ch", ":", "SP", "Ch", "SP", "1", "SP", "EM", "NL", "b">>
\* "Chapter: Chapter 1 — a": no summary
NoSummary == <<"Ch", ":", "SP", "Ch", "SP", "1", "SP", "EM", "SP", "a">>
\* "Chapter 1: a - b": the legacy layout
LegacyOne == <<"Ch", "SP", "1", ":", "SP", "a", "SP", "-", "SP", "b">>
\* "a b": no header of either grammar
Garbage == <<"a", "SP", "b">>
\* two sections, both numbered 1
Duplicate == ValidOne \o <<"NL", "NL">> \o ValidOne
\* a well-formed section inside surrounding whitespace
Padded == <<"SP", "NL">> \o ValidOne \o <<"NL">>

\* What the generator may answer to a direct call of the engine
EngineResponses ==
    {ResponseNone} \cup
    {ResponseOf(t) : t \in {ValidOne, ValidTwo, EmptyTitle, NoSummary, LegacyOne,
                            Garbage, Duplicate, Padded}}

\* What the generator may answer within a request of the application
AppResponses == {ResponseNone} \cup {ResponseOf(t) : t \in {ValidTwo, EmptyTitle}}

\* The message field of the chapter form, already stripped
Messages == {<<>>, <<"a">>}

\* Title and summary values a manual edit submits
EditTitles == {<<>>, <<"b">>}
EditSummaries ==
    {<<"a">>, <<"Ch", ":", "SP", "Ch", "SP", "2", "SP", "-", "SP", "a">>}

\* Pieces a text handed to the parser is made of: sections and single lines
\* "Chapter:Chapter 2- b  a\n a ": a section in another spelling
SectionTwo ==
    <<"Ch", ":", "Ch", "SP", "2", "-", "SP", "b", "SP", "SP", "a", "NL", "SP", "a",
      "SP">>
\* " Chapter : Chapter 1 —": a header without a title
LineHeaderBare == <<"SP", "Ch", "SP", ":", "SP", "Ch", "SP", "1", "SP", "EM">>
\* "Chapter 2: b": a legacy heading without a separator
LineLegacyTwo == <<"Ch", "SP", "2", ":", "SP", "b">>
\* " b  a ": a plain line
LinePlain == <<"SP", "b", "SP", "SP", "a", "SP">>

Pieces ==
    {ValidOne, SectionTwo, LineHeaderBare, LegacyOne, LineLegacyTwo, LinePlain,
     <<>>}

\* Every text of at most n pieces, one line break between two pieces
TextsUpTo(n) ==
    UNION {{Join(ps, <<"NL">>) : ps \in [1..k -> Pieces]} : k \in 0..n}

Texts == TextsUpTo(MaxPieces)

\* "Chapter: Chapter 2 — b": a text that reads as a header
HeaderLike == <<"Ch", ":", "SP", "Ch", "SP", "2", "SP", "EM", "SP", "b">>

\* Title and summary values of entry lists handed to the renderer
TitleTexts == {<<>>, <<"a">>, <<"a", "SP", "SP", "b">>, <<"-", "SP", "a">>}
SummaryTexts == {<<>>, <<"a", "SP", "b">>, <<"a", "NL", "b">>, HeaderLike}

\* Entry lists numbered 1..n
SequentialEntries(n) ==
    {[i \in 1..n |-> Entry(i, f[i][1], f[i][2])] :
        f \in [1..n -> TitleTexts \X SummaryTexts]}

\* Items of a stored JSON list
StoredNumbers ==
    {JInt(1), JInt(2), JStr(<<"SP", "2">>), JStr(<<"a">>), JFloat(2),
     JOther("null"), JOther("missing"), JOther("nan"), JOther("inf")}

StoredItems ==
    {JNonObject, JObject(JInt(1), JOther("null"), JInt(2))} \cup
    {JObject(n, JStr(<<"SP", "a">>), JStr(<<"b">>)) : n \in StoredNumbers}

StoredColumns ==
    {ColumnNone, ColumnEmpty, ColumnInvalid, ColumnNonList} \cup
    UNION {{ColumnList(items) : items \in [1..k -> StoredItems]} : k \in 0..MaxItems}

\* The rendered text stored beside it
FallbackTexts == {<<>>, LegacyOne, Garbage}

\* Entries of the longest act list handed to the draft-default functions
MaxPlanned == 3

\* Chapter numbers the plans of the draft-default calls use
PlanNumbers == {1, 2}

\* A chapter number no plan uses: a draft saved for a chapter since removed
UnplannedNumber == Cardinality(PlanNumbers) + 1

\* Every entry list of at most n entries numbered from PlanNumbers, in any
\* order and with repetitions (a best-effort plan is stored as it came)
PlansUpTo(n) ==
    UNION {{[i \in 1..k |-> Entry(f[i], <<"a">>, <<"b">>)] :
                f \in [1..k -> PlanNumbers]} : k \in 0..n}

\* One act with up to MaxPlanned entries, the two others with at most one
ActChapterLists ==
    UNION {{lists \in [Acts -> PlansUpTo(MaxPlanned)] :
                \A a \in Acts \ {long} : Len(lists[a]) <= 1} : long \in Acts}

\* Draft lookups: text for the keys of drafted; for the others nothing, a
\* blank content, or nothing but a text for an unplanned chapter of each act
DraftLookup(drafted, other) ==
    [key \in drafted
          \cup (IF other = "blank" THEN Acts \X PlanNumbers ELSE {})
          \cup (IF other = "unplanned" THEN Acts \X {UnplannedNumber} ELSE {})
       |-> IF key \in drafted \/ key[2] = UnplannedNumber
           THEN <<"a">> ELSE <<"SP">>]

DraftLookups ==
    {DraftLookup(drafted, other) :
        drafted \in SUBSET (Acts \X PlanNumbers),
        other \in {"none", "blank", "unplanned"}}

----------------------------------------------------------------------------
VARIABLES
    project,            \* the stored Project row: chapters and chapter_list per act
    pc,                 \* where the request in flight stands
    eng,                \* locals of _generate_single_act_chapters
    ret,                \* the engine's return value
    results,            \* locals of _generate_chapter_outlines
    structured_results,
    all_valid,
    chapter_error,      \* what project_detail reports for the chapter form
    chapter_warning,
    backend,            \* the answers the generator may give
    calls,              \* generator invocations of the current engine run
    log,                \* the attempts of the current engine run
    raised_at,          \* the attempt whose generator call raised, 0 if none
    finals,             \* the text each act's engine returned, this request
    verdicts,           \* whether each act's engine returned succeeded
    requests,           \* requests handled so far
    fn, arg, out,       \* a direct call of one of the pure functions
    db,                 \* the tables of the app package: rows per project id
    reply,              \* what the last request of the app package answered
    session,            \* the chat histories of the Flask session, per chat type
    chapter_drafts,     \* the ChapterDraft rows of the project
    story,              \* the other columns of the Project row and its relations
    chat                \* what project_detail reports for the chat form posted last

vars == <<project, pc, eng, ret, results, structured_results, all_valid,
          chapter_error, chapter_warning, backend, calls, log, raised_at,
          finals, verdicts, requests, fn, arg, out, db, reply, session,
          chapter_drafts, story, chat>>

appVars == <<project, results, structured_results, all_valid, chapter_error,
             chapter_warning, finals, verdicts, requests>>

pureVars == <<fn, arg, out>>

chatVars == <<session, chapter_drafts, story, chat>>

pkgVars == <<db, reply, chatVars>>

\* A new project: every chapter column is NULL (None; as a text, empty)
NewProject ==
    [chapters |-> [a \in Acts |-> <<>>],
     chapter_list |-> [a \in Acts |-> ColumnNone]]

InitApp ==
    /\ project = NewProject
    /\ results = <<>>
    /\ structured_results = <<>>
    /\ all_valid = TRUE
    /\ chapter_error = ""
    /\ chapter_warning = FALSE
    /\ finals = <<>>
    /\ verdicts = <<>>
    /\ requests = 0

InitPure == fn = "none" /\ arg = <<>> /\ out = <<>>

\* The chat types of project_detail; "outline" is the default flow
ChatTypes == {"outline", "acts", "chapters", "concepts", "supporting", "drafts"}

\* A new project's other columns are NULL, and it has no concepts and no
\* characters
NewStory ==
    [outline |-> <<>>,
     act_final_notes |-> <<>>,
     act_outline |-> [a \in Acts |-> <<>>],
     chapters_final_notes |-> <<>>,
     concepts |-> <<>>,
     characters |-> <<>>]

\* What project_detail reports for a chat form: the flow, its error
\* ("" if none) and whether the backend was invoked
Chat(chat_type, error, invoked) ==
    [chat_type |-> chat_type, error |-> error, invoked |-> invoked]

NoChat == Chat("none", "", FALSE)

\* A fresh session, no saved drafts, no chat form posted
InitChat ==
    /\ session = [t \in ChatTypes |-> <<>>]
    /\ chapter_drafts = <<>>
    /\ story = NewStory
    /\ chat = NoChat

\* No request of the app package was made
InitPkg == db = <<>> /\ reply = <<>> /\ InitChat

Init ==
    /\ InitApp /\ InitPure /\ InitPkg
    /\ backend = AppResponses
    /\ pc = "idle"
    /\ eng = NoEngine
    /\ ret = NoReturn
    /\ calls = 0
    /\ log = <<>>
    /\ raised_at = 0

----------------------------------------------------------------------------
(* The retry engine, _generate_single_act_chapters *)

\* The loop is entered: the generator is invoked with the current prompt
EngineCall ==
    /\ pc = "loop"
    /\ LoopGuard(eng.attempt, eng.max_attempts)
    /\ eng' = [eng EXCEPT !.attempt = @ + 1]
    /\ calls' = calls + 1
    /\ pc' = "awaiting"
    /\ UNCHANGED <<ret, backend, log, raised_at, appVars, pureVars, pkgVars>>

\* One attempt of the run: the prompt sent, the trimmed answer, the verdict
Attempt(prompt, response, ok) ==
    [prompt |-> prompt, response |-> response, ok |-> ok]

\* The generator returns: the attempt validates and the engine returns, or it
\* fails and the prompt is rebuilt with the validator's feedback
AttemptDone(response) ==
    LET response_clean == ResponseClean(response)
        v == ValidateChapterOutline(response_clean, eng.chapters_per_act)
    IN /\ log' = Append(log, Attempt(eng.prompt, response_clean, v.ok))
       /\ IF v.ok
          THEN /\ ret' = SuccessReturn(eng, response_clean, v.entries)
               /\ pc' = "returned"
               /\ eng' = eng
          ELSE /\ eng' = AfterFailure(eng, response_clean, v.entries, v.message)
               /\ pc' = "loop"
               /\ ret' = ret

GeneratorReturns ==
    /\ pc = "awaiting"
    /\ \E response \in backend : AttemptDone(response)
    /\ UNCHANGED <<backend, calls, raised_at, appVars, pureVars, pkgVars>>

\* An engine that catches the generator's exception and tries again
GeneratorRaisesRetried ==
    /\ pc = "awaiting"
    /\ pc' = "loop"
    /\ raised_at' = eng.attempt
    /\ UNCHANGED <<eng, ret, backend, calls, log, appVars, pureVars, pkgVars>>

\* The generator raises: nothing in the engine catches it
GeneratorRaises ==
    /\ pc = "awaiting"
    /\ pc' = "raised"
    /\ raised_at' = eng.attempt
    /\ UNCHANGED <<eng, ret, backend, calls, log, appVars, pureVars, pkgVars>>

\* The loop is left without a validated attempt
EngineExhausted ==
    /\ pc = "loop"
    /\ ~LoopGuard(eng.attempt, eng.max_attempts)
    /\ ret' = ExhaustedReturn(eng)
    /\ pc' = "returned"
    /\ UNCHANGED <<eng, backend, calls, log, raised_at, appVars, pureVars, pkgVars>>

\* A direct call of the engine, for any act, chapter count and max_attempts
InitEngine ==
    /\ InitApp /\ InitPure /\ InitPkg
    /\ backend = EngineResponses
    /\ pc = "loop"
    /\ ret = NoReturn
    /\ calls = 0
    /\ log = <<>>
    /\ raised_at = 0
    /\ \E act_number \in Acts, chapters_per_act \in 1..MaxChapters,
          max_attempts \in (-1)..MaxAttemptsArg :
          eng = EngineStart(act_number, <<"a">>,
                            [i \in 1..(act_number - 1) |-> <<i, ValidOne>>],
                            chapters_per_act, max_attempts)

NextEngine ==
    \/ EngineCall
    \/ GeneratorReturns
    \/ GeneratorRaises
    \/ EngineExhausted

SpecEngine == InitEngine /\ [][NextEngine]_vars

----------------------------------------------------------------------------
(* Direct calls of the pure functions *)

\* Nothing of the application moves while a pure function is called
restVars == <<project, pc, eng, ret, results, structured_results, all_valid,
              chapter_error, chapter_warning, backend, calls, log, raised_at,
              finals, verdicts, requests, pkgVars>>

\* _validate_chapter_outline(response, expected_count)
CallValidate(response, expected_count) ==
    /\ fn = "none"
    /\ fn' = "validate"
    /\ arg' = [text |-> response, n |-> expected_count]
    /\ out' = ValidateChapterOutline(response, expected_count)
    /\ UNCHANGED restVars

\* _parse_chapter_entries(text)
CallParse(text) ==
    /\ fn = "none"
    /\ fn' = "parse"
    /\ arg' = text
    /\ out' = ParseChapterEntries(text)
    /\ UNCHANGED restVars

\* _parse_chapter_entries(_render_chapter_entries(entries))
CallRenderParse(entries) ==
    /\ fn = "none"
    /\ fn' = "render"
    /\ arg' = entries
    /\ out' = [text |-> RenderChapterEntries(entries),
               parsed |-> ParseChapterEntries(RenderChapterEntries(entries))]
    /\ UNCHANGED restVars

\* _load_chapter_list(serialised, fallback_text)
CallLoad(serialised, fallback_text) ==
    /\ fn = "none"
    /\ fn' = "load"
    /\ arg' = [serialised |-> serialised, fallback_text |-> fallback_text]
    /\ out' = LoadChapterList(serialised, fallback_text)
    /\ UNCHANGED restVars

\* The call is over
CallOver ==
    /\ fn # "none"
    /\ fn' = "none"
    /\ arg' = <<>>
    /\ out' = <<>>
    /\ UNCHANGED restVars

NextPure ==
    \/ \E response \in Texts, expected_count \in 0..MaxChapters :
          CallValidate(response, expected_count)
    \/ \E text \in Texts : CallParse(text)
    \/ \E n \in 0..MaxChapters : \E entries \in SequentialEntries(n) :
          CallRenderParse(entries)
    \/ \E serialised \in StoredColumns, fallback_text \in FallbackTexts :
          CallLoad(serialised, fallback_text)
    \/ CallOver

SpecPure == Init /\ [][NextPure]_vars

----------------------------------------------------------------------------
(* The draft defaults project_detail computes for the drafting form *)

\* The values project_detail computes from the stored plan and the saved
\* drafts
Defaults(act_chapter_lists, chapter_draft_lookup) ==
    [last_drafted |->
         FindLastDraftedChapter(act_chapter_lists, chapter_draft_lookup),
     last_unfilled |->
         FindLastUnfilledChapter(act_chapter_lists, chapter_draft_lookup),
     last_planned |-> FindLastPlannedChapter(act_chapter_lists),
     next_after_last_draft |->
         SuggestNextChapterAfterLastDraft(act_chapter_lists, chapter_draft_lookup)]

\* last_unfilled, last_planned and next_after_last_draft of project_detail,
\* for any plan and any saved drafts
DraftDefaults ==
    /\ fn = "none"
    /\ \E act_chapter_lists \in ActChapterLists,
          chapter_draft_lookup \in DraftLookups :
          /\ arg' = [lists |-> act_chapter_lists, lookup |-> chapter_draft_lookup]
          /\ out' = Defaults(act_chapter_lists, chapter_draft_lookup)
    /\ fn' = "defaults"
    /\ UNCHANGED restVars

NextDraft ==
    \/ DraftDefaults
    \/ CallOver

SpecDraft == Init /\ [][NextDraft]_vars

----------------------------------------------------------------------------
(* project_detail, chat_type "chapters", and _generate_chapter_outlines *)

\* The engine's locals for the act after those already in results
StartAct(act_number, final_notes, previous_chapters, chapters_per_act) ==
    EngineStart(act_number, final_notes, previous_chapters, chapters_per_act,
                DefaultMaxAttempts)

\* An orchestrator that keeps only the latest act as context
ThreadPreviousLatest(previous_chapters, act_number, formatted_text) ==
    <<<<act_number, Strip(formatted_text)>>>>

\* previous_chapters.append((act_number, formatted_text.strip()))
ThreadPrevious(previous_chapters, act_number, formatted_text) ==
    Append(previous_chapters, <<act_number, Strip(formatted_text)>>)

\* A warning computed from the last act alone
AllValidLatest(valid_so_far, act_valid) == act_valid

\* "if not act_valid: all_valid = False"
AllValid(valid_so_far, act_valid) == valid_so_far /\ act_valid

\* The request's locals are gone once it has been answered
RequestOver ==
    /\ pc' = "idle"
    /\ eng' = NoEngine
    /\ ret' = NoReturn
    /\ results' = <<>>
    /\ structured_results' = <<>>
    /\ all_valid' = TRUE
    /\ finals' = <<>>
    /\ verdicts' = <<>>
    /\ calls' = 0
    /\ log' = <<>>
    /\ raised_at' = 0

\* A handler that stores the acts that finished before the exception
RequestFailsPartial ==
    /\ pc = "raised"
    /\ chapter_error' = "backend"
    /\ project' =
          [project EXCEPT
             !.chapters = [a \in Acts |-> IF a <= Len(results)
                                          THEN results[a] ELSE @[a]],
             !.chapter_list = [a \in Acts |->
                                 IF a <= Len(structured_results)
                                 THEN JsonDumps(structured_results[a]) ELSE @[a]]]
    /\ RequestOver
    /\ UNCHANGED <<chapter_warning, backend, requests, pureVars, pkgVars>>

\* POST with chat_type "chapters": the form is checked, then act 1 starts
ChapterRequest(chapters_per_act, user_message) ==
    /\ pc = "idle"
    /\ requests < MaxRequests
    /\ requests' = requests + 1
    /\ chapter_warning' = FALSE
    /\ IF chapters_per_act <= 0
       THEN /\ chapter_error' = "count"
            /\ UNCHANGED <<pc, eng, calls, log>>
       ELSE IF user_message = <<>>
       THEN /\ chapter_error' = "message"
            /\ UNCHANGED <<pc, eng, calls, log>>
       ELSE /\ chapter_error' = ""
            /\ eng' = StartAct(1, user_message, <<>>, chapters_per_act)
            /\ calls' = 0
            /\ log' = <<>>
            /\ pc' = "loop"
    /\ UNCHANGED <<project, ret, results, structured_results, all_valid,
                   backend, raised_at, finals, verdicts, pureVars, pkgVars>>

\* The stored row after the commit of a finished generation
Committed(p, texts, structures) ==
    [p EXCEPT !.chapters = [a \in Acts |-> Strip(texts[a])],
              !.chapter_list = [a \in Acts |-> JsonDumps(structures[a])]]

\* The engine has returned to _generate_chapter_outlines: the act's result is
\* recorded; the next act starts, or after act 3 project_detail stores all
\* three acts and commits
ActDone ==
    /\ pc = "returned"
    /\ eng.act_number \in Acts
    /\ LET texts == Append(results, Strip(ret.text))
           structures == Append(structured_results,
                                SerialiseChapterEntries(ret.entries))
           previous == ThreadPrevious(eng.previous_chapters, eng.act_number,
                                      ret.text)
           valid == AllValid(all_valid, ret.succeeded)
       IN IF eng.act_number < 3
          THEN /\ results' = texts
               /\ structured_results' = structures
               /\ all_valid' = valid
               /\ finals' = Append(finals, ret.text)
               /\ verdicts' = Append(verdicts, ret.succeeded)
               /\ eng' = StartAct(eng.act_number + 1, eng.final_notes, previous,
                                  eng.chapters_per_act)
               /\ ret' = NoReturn
               /\ calls' = 0
               /\ log' = <<>>
               /\ pc' = "loop"
               /\ UNCHANGED <<project, chapter_error, chapter_warning, raised_at>>
          ELSE /\ project' = Committed(project, texts, structures)
               /\ chapter_warning' = ~valid
               /\ chapter_error' = ""
               /\ RequestOver
    /\ UNCHANGED <<backend, requests, pureVars, pkgVars>>

\* The generator's exception reaches project_detail's except clauses: the
\* error is reported and nothing is stored
RequestFails ==
    /\ pc = "raised"
    /\ chapter_error' = "backend"
    /\ RequestOver
    /\ UNCHANGED <<project, chapter_warning, backend, requests, pureVars, pkgVars>>

----------------------------------------------------------------------------
(* project_update_chapter_plan (PATCH /projects/<id>/chapters/plan) *)

\* A merge that keeps only the edited entry
MergeEditAlone(entries, chapter_number, title, summary) ==
    <<Entry(chapter_number, title, summary)>>

RECURSIVE MergeEdit(_, _, _, _)
\* The loop that overwrites the first entry numbered chapter_number
MergeEdit(entries, chapter_number, title, summary) ==
    IF entries = <<>> THEN <<>>
    ELSE IF Head(entries).number = chapter_number
    THEN <<Entry(chapter_number, title, summary)>> \o Tail(entries)
    ELSE <<Head(entries)>>
         \o MergeEdit(Tail(entries), chapter_number, title, summary)

\* An edit that adds the chapter when the act has no entry of that number
EditResultAdding(p, act_number, chapter_number, title_raw, summary_raw) ==
    LET entries == IF act_number \in Acts
                   THEN LoadChapterList(p.chapter_list[act_number],
                                        p.chapters[act_number]).entries
                   ELSE <<>>
        added == SerialiseChapterEntries(
                     Append(entries, Entry(chapter_number, Strip(title_raw),
                                           Strip(summary_raw))))
    IN IF /\ act_number \in Acts
          /\ \A i \in 1..Len(entries) : entries[i].number # chapter_number
       THEN [ok |-> TRUE,
             project |-> [p EXCEPT !.chapter_list[act_number] = JsonDumps(added),
                                   !.chapters[act_number] =
                                       RenderChapterEntries(added)]]
       ELSE [ok |-> FALSE, project |-> p]

\* The stored row after a manual edit, and whether the edit was accepted
EditResult(p, act_number, chapter_number, title_raw, summary_raw) ==
    LET rejected == [ok |-> FALSE, project |-> p]
        stored(serialised_entries) ==
            [ok |-> TRUE,
             project |->
               [p EXCEPT
                  !.chapter_list[act_number] = JsonDumps(serialised_entries),
                  !.chapters[act_number] =
                      RenderChapterEntries(serialised_entries)]]
        merged(entries, title, summary) ==
            IF entries = <<>> THEN rejected
            ELSE IF \A i \in 1..Len(entries) : entries[i].number # chapter_number
            THEN rejected
            ELSE stored(SerialiseChapterEntries(
                            MergeEdit(entries, chapter_number, title, summary)))
        cleaned(title, summary) ==
            IF act_number \notin {1, 2, 3} \/ chapter_number <= 0 THEN rejected
            ELSE IF title = <<>> \/ summary = <<>> THEN rejected
            ELSE merged(LoadChapterList(p.chapter_list[act_number],
                                        p.chapters[act_number]).entries,
                        title, summary)
    IN cleaned(Strip(title_raw), Strip(summary_raw))

UpdateChapterPlan(act_number, chapter_number, title_raw, summary_raw) ==
    /\ pc = "idle"
    /\ requests < MaxRequests
    /\ requests' = requests + 1
    /\ project' = EditResult(project, act_number, chapter_number, title_raw,
                             summary_raw).project
    /\ UNCHANGED <<pc, eng, ret, results, structured_results, all_valid,
                   chapter_error, chapter_warning, backend, calls, log,
                   raised_at, finals, verdicts, pureVars, pkgVars>>

Next ==
    \/ \E chapters_per_act \in 0..MaxChapters, user_message \in Messages :
          ChapterRequest(chapters_per_act, user_message)
    \/ EngineCall
    \/ GeneratorReturns
    \/ GeneratorRaises
    \/ EngineExhausted
    \/ ActDone
    \/ RequestFails
    \/ \E act_number \in Acts, chapter_number \in 0..MaxChapters,
          title_raw \in EditTitles, summary_raw \in EditSummaries :
          UpdateChapterPlan(act_number, chapter_number, title_raw, summary_raw)

Spec == Init /\ [][Next]_vars

----------------------------------------------------------------------------
(* Properties of the retry engine, checked under SpecEngine *)

\* max_attempts when positive, else 0: the passes the loop can make
LoopPasses(max_attempts) == IF max_attempts > 0 THEN max_attempts ELSE 0

\* The plan invariant: exactly n entries, the entry at position i numbered i,
\* every title and summary non-empty after trimming
ActChapterPlan(entries, n) ==
    /\ Len(entries) = n
    /\ \A i \in 1..Len(entries) :
          /\ entries[i].number = i
          /\ Strip(entries[i].title) # <<>>
          /\ Strip(entries[i].summary) # <<>>

\* C1: in one run of the engine the generator is invoked at most max_attempts
\* times (never when max_attempts is not positive), exactly once when the
\* first response validates, and never again after an attempt that validated:
\* a validated attempt is the last one and the engine has returned.
C1_RetryBounded ==
    /\ calls <= LoopPasses(eng.max_attempts)
    /\ calls = eng.attempt
    /\ Len(log) \in {calls, calls - 1}
    /\ (Len(log) >= 1 /\ log[1].ok) => calls = 1
    /\ \A i \in 1..Len(log) :
          log[i].ok => (i = Len(log) /\ calls = i /\ pc = "returned")

\* The first response validated although more attempts were allowed
C1_Witness ==
    /\ pc = "returned"
    /\ ret.succeeded
    /\ calls = 1
    /\ eng.max_attempts = MaxAttemptsArg

\* C2: whenever the engine returns succeeded = true for requested count N,
\* the returned entries are a plan of N chapters (N entries numbered 1..N in
\* order, titles and summaries non-empty) and the returned text is their
\* rendering.
C2_SuccessIsValid ==
    (ret.returned /\ ret.succeeded) =>
        /\ ActChapterPlan(ret.entries, eng.chapters_per_act)
        /\ ret.text = RenderChapterEntries(ret.entries)
        /\ ret.entries = ParseChapterEntries(log[Len(log)].response)

\* A success on a retry, with two chapters
C2_Witness ==
    /\ ret.returned
    /\ ret.succeeded
    /\ eng.chapters_per_act = 2
    /\ calls = 2

\* C3 as the specification states it: when every attempt (at least one) fails
\* validation the engine returns succeeded = false and a debug trail of
\* exactly max_attempts lines.
C3_TrailOfMaxAttempts ==
    (ret.returned /\ ~ret.succeeded /\ eng.max_attempts >= 1) =>
        /\ pc = "returned"
        /\ raised_at = 0
        /\ Len(ret.debug) = eng.max_attempts

\* C3, amended: when every attempt fails validation the engine returns
\* without raising, succeeded = false, the text is the rendering of the last
\* draft's entries or, when it has none, the last raw response, and the debug
\* trail has one line per failed attempt followed by one closing line, hence
\* max_attempts + 1 lines (1 line when max_attempts is not positive).
C3_BestEffortReturn ==
    (ret.returned /\ ~ret.succeeded) =>
        /\ pc = "returned"
        /\ raised_at = 0
        /\ calls = LoopPasses(eng.max_attempts)
        /\ Len(log) = calls
        /\ \A i \in 1..Len(log) : ~log[i].ok
        /\ LET last_response == IF calls > 0 THEN log[calls].response ELSE <<>>
           IN /\ ret.entries = ParseChapterEntries(last_response)
              /\ ret.text = IF ret.entries # <<>>
                            THEN RenderChapterEntries(ret.entries)
                            ELSE last_response
        /\ Len(ret.debug) = calls + 1
        /\ \A i \in 1..calls :
              ret.debug[i].kind = "failure" /\ ret.debug[i].attempt = i
        /\ ret.debug[calls + 1].kind = "exhausted"

\* Three attempts failed and the last draft, which has entries, is returned
C3_Witness ==
    /\ ret.returned
    /\ ~ret.succeeded
    /\ eng.max_attempts = 3
    /\ calls = 3
    /\ ret.entries # <<>>
    /\ Len(ret.debug) = 4

\* C5: when the generator raises on attempt k the exception leaves the
\* engine: no further generator call is made (the calls stay at k), no
\* answer is recorded for attempt k, and the engine returns no result.
C5_ExceptionPropagates ==
    raised_at # 0 =>
        /\ pc = "raised"
        /\ calls = raised_at
        /\ eng.attempt = raised_at
        /\ Len(log) = raised_at - 1
        /\ ret = NoReturn

\* The generator raised on the second attempt, after a validation failure
C5_Witness ==
    /\ pc = "raised"
    /\ raised_at = 2
    /\ eng.max_attempts = 3
    /\ ~log[1].ok

----------------------------------------------------------------------------
(* Properties of the pure functions, checked under SpecPure *)

\* C4: the validator answers ok exactly when the parsed list has N entries,
\* the entry at position i is numbered i, and every title and summary is
\* non-empty after trimming; on success the message is empty; the entries it
\* returns are the parsed ones.
C4_ValidatorCorrect ==
    fn = "validate" =>
        LET entries == ParseChapterEntries(arg.text) IN
        /\ out.ok <=> ActChapterPlan(entries, arg.n)
        /\ out.ok => out.message = NoMessage
        /\ ~out.ok => out.message # NoMessage
        /\ out.entries = entries

\* A text of two chapters validated against a count of two
C4_Witness ==
    /\ fn = "validate"
    /\ arg.n = 2
    /\ out.ok
    /\ Len(out.entries) = 2

\* Some substring of s matches the header grammar
ContainsHeader(s) ==
    \E i \in 1..Len(s) : MatchChapterHeader(SubSeq(s, i, Len(s))).matched

\* No title or summary of the list contains a header
HeaderFree(entries) ==
    \A i \in 1..Len(entries) :
        /\ ~ContainsHeader(entries[i].title)
        /\ ~ContainsHeader(entries[i].summary)

\* Titles are non-empty and titles and summaries are in the parser's
\* normal form: trimmed, every whitespace run a single blank
NormalForm(entries) ==
    \A i \in 1..Len(entries) :
        /\ entries[i].title # <<>>
        /\ entries[i].title = NormaliseWhitespace(entries[i].title)
        /\ entries[i].summary = NormaliseWhitespace(entries[i].summary)

\* C8 as the specification states it: for entries numbered 1..N whose titles
\* and summaries contain no header, parsing the rendered text gives the
\* entries back.
C8_RoundTripAnyFields ==
    (fn = "render" /\ HeaderFree(arg)) => out.parsed = arg

\* C8, amended: for entries numbered 1..N whose titles and summaries contain
\* no header, whose titles are non-empty and whose titles and summaries are
\* trimmed with single blanks between words, parsing the rendered text gives
\* the entries back, and rendering those gives the same text.
C8_RoundTrip ==
    (fn = "render" /\ HeaderFree(arg) /\ NormalForm(arg)) =>
        /\ out.parsed = arg
        /\ RenderChapterEntries(out.parsed) = out.text

\* Two entries in normal form, one with a summary and one without
C8_Witness ==
    /\ fn = "render"
    /\ Len(arg) = 2
    /\ HeaderFree(arg)
    /\ NormalForm(arg)
    /\ arg[1].summary # <<>>
    /\ arg[2].summary = <<>>
    /\ Len(out.parsed) = 2

\* The lines of text that match the structured header pattern
HeaderLines(text) ==
    {i \in 1..Len(SplitLines(text)) :
        MatchChapterHeader(SplitLines(text)[i]).matched}

\* C9: a text with at least one structured header line parses to the
\* structured grammar's result, one entry per structured header line; a text
\* with none parses to the legacy grammar's result; the empty text parses to
\* the empty sequence.
C9_GrammarPriority ==
    fn = "parse" =>
        /\ arg = <<>> => out = <<>>
        /\ HeaderLines(arg) # {} =>
              /\ out = ParseStructuredChapterEntries(arg)
              /\ Len(out) = Cardinality(HeaderLines(arg))
        /\ HeaderLines(arg) = {} => out = ParseLegacyChapterEntries(arg)

\* A text with one structured header and a legacy heading after it
C9_Witness ==
    /\ fn = "parse"
    /\ Cardinality(HeaderLines(arg)) = 1
    /\ ParseLegacyChapterEntries(arg) # <<>>
    /\ Len(out) = 1
    /\ out # ParseLegacyChapterEntries(arg)

\* The stored items _load_chapter_list can use: objects whose number int()
\* accepts
UsableItems(serialised) ==
    IF serialised.kind # "list" THEN <<>>
    ELSE SelectSeq(serialised.items,
                   LAMBDA item : item.isDict /\ IntOf(item.number).error = "")

\* C10 as the specification states it: load returns the entries of the stored
\* list when it has a usable entry, else the serialised parse of the fallback
\* text (empty when that has none), and never raises on malformed stored
\* data.
C10_LoadNeverRaises ==
    fn = "load" =>
        /\ out.raised = ""
        /\ LET usable == UsableItems(arg.serialised) IN
           IF usable # <<>>
           THEN out.entries =
                    [i \in 1..Len(usable) |->
                        Entry(IntOf(usable[i].number).n, StrOf(usable[i].title),
                              StrOf(usable[i].summary))]
           ELSE out.entries =
                    SerialiseChapterEntries(ParseChapterEntries(arg.fallback_text))

----------------------------------------------------------------------------
(* Properties of the application, checked under Spec *)

\* The "previous chapters" sections a prompt must carry after the acts whose
\* final texts are texts
SectionsOf(texts) ==
    [i \in 1..Len(texts) |->
        <<i, IF Strip(texts[i]) # <<>> THEN Strip(texts[i])
             ELSE NoChaptersAvailable>>]

\* C6: within one request the engine runs for acts 1, 2, 3 in that order,
\* act N + 1 only once acts 1..N have returned, and every prompt for act N,
\* the first and each retry, carries the final text of each act 1..N-1 (the
\* placeholder for an empty one) and nothing else of those acts.
C6_ActsInOrder ==
    pc # "idle" =>
        /\ eng.act_number \in Acts
        /\ eng.act_number = Len(finals) + 1
        /\ Len(results) = Len(finals)
        /\ \A i \in 1..Len(finals) : results[i] = Strip(finals[i])
        /\ eng.prompt.act_number = eng.act_number
        /\ eng.prompt.chapter_sections = SectionsOf(finals)
        /\ \A i \in 1..Len(log) :
              /\ log[i].prompt.act_number = eng.act_number
              /\ log[i].prompt.chapter_sections = SectionsOf(finals)

\* A retry of act 3 is out, with feedback, after acts 1 and 2 returned
\* different texts
C6_Witness ==
    /\ pc = "awaiting"
    /\ eng.act_number = 3
    /\ calls = 2
    /\ Len(finals) = 2
    /\ finals[1] # finals[2]
    /\ finals[1] # <<>>
    /\ eng.prompt.has_feedback

\* The entries a stored chapter_list column holds
StoredEntries(serialised) == LoadChapterList(serialised, <<>>).entries

\* C7 as the specification states it: for each act, parsing the stored
\* rendered text gives the records of the stored structured list, in order.
C7_TextAndListInSync ==
    \A a \in Acts :
        ParseChapterEntries(project.chapters[a])
            = StoredEntries(project.chapter_list[a])

----------------------------------------------------------------------------
(* Properties of the draft defaults, checked under SpecDraft *)

\* The positions (act, index) of the planned entries
PlannedPositions(lists) ==
    UNION {{<<a, i>> : i \in 1..Len(lists[a])} : a \in Acts}

\* Position p comes before position q: act order, then entry order
Before(p, q) == p[1] < q[1] \/ (p[1] = q[1] /\ p[2] < q[2])

\* The content holds something other than whitespace
NonBlank(content) == \E i \in 1..Len(content) : content[i] \notin WS

\* The entry at position p has a saved draft with non-blank content
DraftedAt(lists, lookup, p) ==
    LET key == <<p[1], lists[p[1]][p[2]].number>>
    IN key \in DOMAIN lookup /\ NonBlank(lookup[key])

\* The last position of the set, none when it is empty
LastPosition(positions) ==
    IF positions = {} THEN <<>>
    ELSE CHOOSE p \in positions : \A q \in positions : q = p \/ Before(q, p)

\* The (act, chapter) pair of the entry at a position, None for none
ChapterAt(lists, p) ==
    IF p = <<>> THEN NoChapter ELSE <<p[1], lists[p[1]][p[2]].number>>

\* C11 as the specification states it: the suggestion is the chapter right
\* after the last drafted chapter in the same act, None when the last drafted
\* chapter is the final planned chapter of its act, and None when no planned
\* chapter has a draft.
C11_NextAfterLastDraft ==
    fn = "defaults" =>
        LET last == LastPosition({p \in PlannedPositions(arg.lists) :
                                     DraftedAt(arg.lists, arg.lookup, p)})
        IN out.next_after_last_draft =
              IF last = <<>> THEN NoChapter
              ELSE IF last[2] = Len(arg.lists[last[1]]) THEN NoChapter
              ELSE ChapterAt(arg.lists, <<last[1], last[2] + 1>>)

\* C12: each of last drafted, last unfilled and last planned is the chapter
\* of the last planned entry, in act order then entry order, that has a
\* non-blank draft / has none / is planned, and None when there is no such
\* entry; the drafts of chapters that are not planned change nothing.
C12_LastMatching ==
    fn = "defaults" =>
        LET planned == PlannedPositions(arg.lists)
            drafted == {p \in planned : DraftedAt(arg.lists, arg.lookup, p)}
            planned_keys == {ChapterAt(arg.lists, p) : p \in planned}
            planned_only == [key \in DOMAIN arg.lookup \cap planned_keys |->
                                arg.lookup[key]]
        IN /\ out.last_drafted = ChapterAt(arg.lists, LastPosition(drafted))
           /\ out.last_unfilled =
                  ChapterAt(arg.lists, LastPosition(planned \ drafted))
           /\ out.last_planned = ChapterAt(arg.lists, LastPosition(planned))
           /\ out = Defaults(arg.lists, planned_only)

\* All three acts are planned, the drafts stop in act 2 before an earlier
\* drafted entry of act 1, and a draft of an unplanned chapter is saved
C12_Witness ==
    /\ fn = "defaults"
    /\ \A a \in Acts : arg.lists[a] # <<>>
    /\ Len(arg.lists[1]) = MaxPlanned
    /\ <<3, UnplannedNumber>> \in DOMAIN arg.lookup
    /\ HasDraft(arg.lookup, 1, 1)
    /\ out.last_drafted = <<2, 2>>
    /\ out.last_unfilled = <<3, 1>>
    /\ out.last_planned = <<3, 1>>

----------------------------------------------------------------------------
(* Further properties of the application, checked under Spec *)

\* The row a request stores once act 3 has returned: for each act the
\* trimmed final text and the JSON of its serialised entries
PlanOfRequest ==
    LET texts == Append(finals, ret.text)
        lists == Append(structured_results, SerialiseChapterEntries(ret.entries))
    IN [chapters |-> [a \in Acts |-> Strip(texts[a])],
        chapter_list |-> [a \in Acts |-> JsonDumps(lists[a])]]

\* C13: a generation request replaces the stored plan in one step or not at
\* all: while it runs nothing stored changes; when the engine of act 3
\* returns, the text and the list of all three acts are replaced together;
\* when the generator raises, in whichever act, none of the six stored
\* fields changes.
C13_PlanReplacedAtomically ==
    [][/\ pc \in {"loop", "awaiting", "raised"} => project' = project
       /\ (pc = "returned" /\ eng.act_number < 3) => project' = project
       /\ (pc = "returned" /\ eng.act_number = 3) =>
             /\ project' = PlanOfRequest
             /\ pc' = "idle"]_vars

\* The generator has raised in a later act of a request, after act 1 of the
\* same request returned, while an earlier plan is stored
C13_Witness ==
    /\ pc = "raised"
    /\ Len(results) >= 1
    /\ eng.act_number >= 2
    /\ project.chapters[1] # <<>>
    /\ results[1] # project.chapters[1]

\* C15: when all three acts have returned, the plan of every act is stored,
\* best-effort drafts included, and the validation warning is shown exactly
\* when at least one act returned succeeded = false; no error is reported.
C15_WarningIffBestEffort ==
    [][(pc = "returned" /\ eng.act_number = 3) =>
          LET succeeded == Append(verdicts, ret.succeeded)
          IN /\ Len(succeeded) = 3
             /\ project' = PlanOfRequest
             /\ chapter_warning' = (\E a \in Acts : ~succeeded[a])
             /\ chapter_error' = ""]_vars

\* A stored plan with a warning: act 1 is a best-effort draft without a
\* title, act 2 a validated plan
C15_Witness ==
    /\ pc = "idle"
    /\ chapter_warning
    /\ chapter_error = ""
    /\ StoredEntries(project.chapter_list[1]) # <<>>
    /\ StoredEntries(project.chapter_list[1])[1].title = <<>>
    /\ ActChapterPlan(StoredEntries(project.chapter_list[2]), 2)

\* What an accepted edit of chapter c of act a may change of the row p: in
\* act a the title and summary of the entries numbered c, and nothing else
EditFrame(p, a, c, title_raw, summary_raw, q) ==
    LET before == StoredEntries(p.chapter_list[a])
        after == StoredEntries(q.chapter_list[a])
    IN /\ \A b \in Acts \ {a} :
             /\ q.chapters[b] = p.chapters[b]
             /\ q.chapter_list[b] = p.chapter_list[b]
       /\ Len(after) = Len(before)
       /\ \A j \in 1..Len(before) :
             /\ after[j].number = before[j].number
             /\ before[j].number # c => after[j] = before[j]
       /\ \E j \in 1..Len(before) :
             /\ before[j].number = c
             /\ after[j].title = NormaliseWhitespace(title_raw)
             /\ after[j].summary = NormaliseWhitespace(summary_raw)
       /\ q.chapter_list[a] = JsonDumps(after)
       /\ q.chapters[a] = RenderChapterEntries(after)

\* C14: for every stored plan the application reaches, an accepted manual
\* edit of chapter c of act a leaves the number and order of act a's entries,
\* every entry not numbered c and both stored forms of the other acts as
\* they were, sets the title and summary of the entry numbered c, and writes
\* act a's list and text from the merged list; a rejected edit changes
\* nothing.
C14_EditFrame ==
    pc = "idle" =>
        \A a \in Acts, c \in 0..MaxChapters,
           title_raw \in EditTitles, summary_raw \in EditSummaries :
            LET r == EditResult(project, a, c, title_raw, summary_raw)
            IN /\ r.ok => EditFrame(project, a, c, title_raw, summary_raw,
                                    r.project)
               /\ ~r.ok => r.project = project

\* Chapter 1 of act 1 of a validated two-chapter plan carries the edited
\* title, chapter 2 and the other acts are as generated
C14_Witness ==
    /\ pc = "idle"
    /\ Len(StoredEntries(project.chapter_list[1])) = 2
    /\ StoredEntries(project.chapter_list[1])[1].title = <<"b">>
    /\ StoredEntries(project.chapter_list[1])[2] = EntryTwo
    /\ StoredEntries(project.chapter_list[2]) = <<EntryOne, EntryTwo>>
    /\ project.chapters[2] = ValidTwo

----------------------------------------------------------------------------
(* Further properties of the pure functions, checked under SpecPure *)

\* Entry i carries a number an earlier entry carries
RepeatsEarlier(entries, i) ==
    \E j \in 1..(i - 1) : entries[j].number = entries[i].number

\* Entry i fails one of the validator's per-entry checks
FailsCheck(entries, i) ==
    \/ RepeatsEarlier(entries, i)
    \/ entries[i].number # i
    \/ Strip(entries[i].title) = <<>>
    \/ Strip(entries[i].summary) = <<>>

----------------------------------------------------------------------------
(* Further properties of the retry engine, checked under SpecEngine *)

\* C17: when the attempts are exhausted the returned entries are the ones
\* parsed from the final attempt's response, and the returned text is their
\* rendering when there are any and the trimmed response of the final
\* attempt otherwise; nothing of an earlier attempt is returned.
C17_LastDraftReturned ==
    (ret.returned /\ ~ret.succeeded /\ calls >= 1) =>
        LET final == log[Len(log)].response IN
        /\ Len(log) = calls
        /\ ret.entries = ParseChapterEntries(final)
        /\ ParseChapterEntries(final) # <<>> =>
              ret.text = RenderChapterEntries(ParseChapterEntries(final))
        /\ ParseChapterEntries(final) = <<>> => ret.text = final

\* The first draft had entries, the final one has none: the raw final
\* response is returned
C17_Witness ==
    /\ ret.returned
    /\ ~ret.succeeded
    /\ calls = 3
    /\ ParseChapterEntries(log[1].response) # <<>>
    /\ ParseChapterEntries(log[3].response) = <<>>
    /\ ret.entries = <<>>
    /\ ret.text = Garbage

\* The prompt of attempt k of the run: a recorded one, or the one in hand
PromptOf(k) == IF k <= Len(log) THEN log[k].prompt ELSE eng.prompt

\* C18: the prompt of attempt 1 has no validator-feedback section; the
\* prompt of attempt k + 1 carries the validator's message about attempt k
\* and the trimmed response of attempt k (the "previous response" section
\* is there exactly when that response is not empty); act, chapter count,
\* notes and previous chapters are those of attempt 1.
C18_FeedbackOfPreviousAttempt ==
    pc \in {"loop", "awaiting", "raised"} =>
        /\ ~PromptOf(1).has_feedback
        /\ PromptOf(1).feedback = NoMessage
        /\ PromptOf(1).previous_response = <<>>
        /\ \A k \in 1..Len(log) :
              LET prompt == PromptOf(k + 1)
                  verdict == ValidateChapterOutline(log[k].response,
                                                    eng.chapters_per_act)
              IN /\ prompt.has_feedback
                 /\ prompt.feedback = verdict.message
                 /\ prompt.feedback # NoMessage
                 /\ prompt.previous_response = log[k].response
                 /\ prompt.has_previous <=> log[k].response # <<>>
                 /\ prompt.act_number = PromptOf(1).act_number
                 /\ prompt.chapters_per_act = PromptOf(1).chapters_per_act
                 /\ prompt.final_notes = PromptOf(1).final_notes
                 /\ prompt.chapter_sections = PromptOf(1).chapter_sections

\* The third attempt is out; the first two drafts differ and failed for
\* different reasons
C18_Witness ==
    /\ pc = "awaiting"
    /\ calls = 3
    /\ Len(log) = 2
    /\ log[1].response # log[2].response
    /\ log[2].prompt.feedback # eng.prompt.feedback
    /\ eng.prompt.has_previous
    /\ eng.prompt.previous_response = log[2].response

\* C19 as the specification states it: for every max_attempts the engine
\* stops after at most max_attempts passes of its loop, and when the
\* generator never raises it returns something usable: a non-empty text or
\* a non-empty entry list.
C19_AlwaysUsable ==
    /\ eng.attempt <= LoopPasses(eng.max_attempts)
    /\ ret.returned => (ret.text # <<>> \/ ret.entries # <<>>)

\* C20: a response from which no entry is parsed is an ordinary failed
\* attempt: it does not validate, the validator's message is the count
\* mismatch "expected N but found 0", which the next prompt carries, and the
\* engine goes on to the next attempt when one is left.
C20_ParseFailureIsCountMismatch ==
    \A i \in 1..Len(log) :
        ParseChapterEntries(log[i].response) = <<>> =>
            /\ ~log[i].ok
            /\ raised_at # i
            /\ PromptOf(i + 1).feedback =
                   Message("count", eng.chapters_per_act, 0)
            /\ (i = Len(log) /\ i < eng.max_attempts) => pc # "returned"
            /\ (i = Len(log) /\ pc = "returned") => ~ret.succeeded

\* The generator returned None and then a text without a header; a third
\* attempt follows
C20_Witness ==
    /\ Len(log) = 2
    /\ log[1].response = <<>>
    /\ log[2].response = Garbage
    /\ eng.chapters_per_act = 2
    /\ pc = "awaiting"
    /\ calls = 3

----------------------------------------------------------------------------
(***************************************************************************)
(* app/services/concept_analysis.py: the concept clarification pipeline     *)
(*                                                                         *)
(* Letters are single tokens here, so that case folding, title case and    *)
(* the word pattern are computed.  The alphabet is the letters of "about"  *)
(* in both cases, the apostrophe "'", the dash "-" and the blanks of WS.   *)
(***************************************************************************)

LowerChars == <<"a", "b", "o", "u", "t">>

UpperChars == <<"A", "B", "O", "U", "T">>

\* [A-Za-z]
Letters == {LowerChars[i] : i \in 1..5} \cup {UpperChars[i] : i \in 1..5}

\* [A-Za-z'\-]
WordChars == Letters \cup {"'", "-"}

\* str.lower() of one character
FoldChar(c) ==
    IF \E i \in 1..5 : UpperChars[i] = c
    THEN LowerChars[CHOOSE i \in 1..5 : UpperChars[i] = c] ELSE c

\* str.upper() of one character
UpChar(c) ==
    IF \E i \in 1..5 : LowerChars[i] = c
    THEN UpperChars[CHOOSE i \in 1..5 : LowerChars[i] = c] ELSE c

\* str.casefold()
Casefold(s) == [i \in 1..Len(s) |-> FoldChar(s[i])]

\* str.title(): a letter is upper case when no letter precedes it
TitleCase(s) ==
    [i \in 1..Len(s) |->
        IF s[i] \notin Letters THEN s[i]
        ELSE IF i > 1 /\ s[i - 1] \in Letters THEN FoldChar(s[i]) ELSE UpChar(s[i])]

\* str.replace("'", " ")
ReplaceApostrophes(s) == [i \in 1..Len(s) |-> IF s[i] = "'" THEN "SP" ELSE s[i]]

\* Whether term occurs in text at index i
OccursAt(text, term, i) ==
    /\ i >= 1
    /\ i + Len(term) - 1 <= Len(text)
    /\ SubSeq(text, i, i + Len(term) - 1) = term

RECURSIVE WordRun(_)
\* How many characters of [A-Za-z'\-] s starts with
WordRun(s) ==
    IF s # <<>> /\ Head(s) \in WordChars THEN 1 + WordRun(Tail(s)) ELSE 0

RECURSIVE FindWords(_)
\* _WORD_PATTERN.findall(text), _WORD_PATTERN = [A-Za-z][A-Za-z'\-]+
FindWords(text) ==
    IF text = <<>> THEN <<>>
    ELSE LET run == WordRun(Tail(text)) IN
         IF Head(text) \in Letters /\ run >= 1
         THEN <<SubSeq(text, 1, 1 + run)>> \o
              FindWords(SubSeq(text, 2 + run, Len(text)))
         ELSE FindWords(Tail(text))

\* _STOPWORDS: the words that can be written in the alphabet of the model
Stopwords == {<<"a", "b", "o", "u", "t">>}

RECURSIVE Distinct(_)
\* The keys of Counter(words), in the order of first occurrence
Distinct(words) ==
    IF words = <<>> THEN <<>>
    ELSE LET before == Distinct(SubSeq(words, 1, Len(words) - 1))
             last == words[Len(words)]
         IN IF \E i \in 1..Len(before) : before[i] = last
            THEN before ELSE Append(before, last)

\* Counter(words)[word]
CountOf(words, word) == Cardinality({i \in 1..Len(words) : words[i] = word})

RECURSIVE ByCount(_, _, _)
\* The keys whose count is at most count, the most frequent first
ByCount(keys, words, count) ==
    IF count = 0 THEN <<>>
    ELSE SelectSeq(keys, LAMBDA k : CountOf(words, k) = count) \o
         ByCount(keys, words, count - 1)

\* Counter(words).most_common(): by falling count, ties in the order of
\* first occurrence
MostCommon(words) == ByCount(Distinct(words), words, Len(words))

\* Optional[str]
IssueNone == [some |-> FALSE, s |-> <<>>]
IssueOf(s) == [some |-> TRUE, s |-> s]

\* ConceptCandidate(name, issue)
ConceptCandidate(name, issue) == [name |-> name, issue |-> issue]

\* ConceptDefinitionPayload(name, definition, examples, issue)
ConceptDefinitionPayload(name, definition, examples, issue) ==
    [name |-> name, definition |-> definition, examples |-> examples,
     issue |-> issue]

\* (project_title or "the project").strip() or "the project"
ProjectFragment(project_title) ==
    LET fragment == Strip(IF project_title = <<>>
                          THEN <<"the project">> ELSE project_title)
    IN IF fragment = <<>> THEN <<"the project">> ELSE fragment

\* limit of _fallback_candidates
FallbackLimit == 5

\* word.replace("'", " ").strip().title()
CandidateName(word) == TitleCase(Strip(ReplaceApostrophes(word)))

\* _fallback_candidates(outline, project_fragment)
FallbackCandidates(outline, project_fragment) ==
    LET long == SelectSeq(FindWords(outline), LAMBDA w : Len(w) > 4)
        words == [i \in 1..Len(long) |-> Casefold(long[i])]
        kept == SelectSeq(MostCommon(words),
                          LAMBDA w : /\ CountOf(words, w) >= 2
                                     /\ w \notin Stopwords
                                     /\ CandidateName(w) # <<>>)
        upto == IF Len(kept) < FallbackLimit THEN Len(kept) ELSE FallbackLimit
    IN IF kept = <<>>
       THEN <<ConceptCandidate(project_fragment,
                               IssueOf(<<"Clarify the central concept">>))>>
       ELSE [i \in 1..upto |->
                ConceptCandidate(CandidateName(kept[i]),
                    IssueOf(<<"Clarify how ">> \o CandidateName(kept[i])
                            \o <<" functions within the story.">>))]

\* The window of _extract_context on either side of the term
ContextWindow == 140

\* _extract_context(outline, term): the first match of
\* (.{0,140}term.{0,140}), ignoring case, with its whitespace runs collapsed
ExtractContext(outline, term) ==
    LET text == Casefold(outline)
        key == Casefold(term)
        hits == {i \in 1..Len(outline) : OccursAt(text, key, i)}
    IN IF term = <<>> \/ hits = {} THEN <<>>
       ELSE LET first == CHOOSE i \in hits : \A j \in hits : i <= j
                start == IF first > ContextWindow
                         THEN first - ContextWindow ELSE 1
                hit == CHOOSE i \in hits :
                          /\ i <= start + ContextWindow
                          /\ \A j \in hits : j <= start + ContextWindow => j <= i
                stop == IF hit + Len(term) - 1 + ContextWindow < Len(outline)
                        THEN hit + Len(term) - 1 + ContextWindow
                        ELSE Len(outline)
            IN Strip(CollapseWs(SubSeq(outline, start, stop)))

\* _fallback_concept_definitions(outline, candidates, project_fragment)
FallbackConceptDefinitions(outline, candidates, project_fragment) ==
    LET candidate_list == IF candidates = <<>>
                          THEN FallbackCandidates(outline, project_fragment)
                          ELSE candidates
    IN [i \in 1..Len(candidate_list) |->
          LET name == candidate_list[i].name
              context == ExtractContext(outline, name)
          IN ConceptDefinitionPayload(
                 name,
                 IF context # <<>>
                 THEN name \o <<" represents ">> \o context \o <<". Expand">>
                 ELSE name \o <<" is a pivotal idea in ">> \o project_fragment,
                 << <<"A scene where ">> \o name, <<"An image of ">> \o name >>,
                 candidate_list[i].issue)]

(***************************************************************************)
(* What generate_response hands back: None, the empty string, text that    *)
(* is not JSON, or a JSON document.  A document is a list of items, an     *)
(* object whose "concepts" member is a list of items, or anything else.    *)
(* An item is an object with the members name, issue, definition and       *)
(* examples (each a JSON scalar, examples possibly a list of scalars), or  *)
(* not an object at all.                                                   *)
(***************************************************************************)

GenNone == [kind |-> "none", items |-> <<>>]
GenEmpty == [kind |-> "empty", items |-> <<>>]
GenInvalid == [kind |-> "invalid", items |-> <<>>]
\* a document that holds no list: a scalar, or an object without a list
\* under "concepts"
GenOther == [kind |-> "other", items |-> <<>>]
GenList(items) == [kind |-> "list", items |-> items]
GenObject(items) == [kind |-> "object", items |-> items]

ExamplesList(items) == [t |-> "list", n |-> 0, s |-> <<>>, items |-> items]

ConceptItem(name, issue, definition, examples) ==
    [isDict |-> TRUE, name |-> name, issue |-> issue,
     definition |-> definition, examples |-> examples]

ConceptNonObject ==
    [isDict |-> FALSE, name |-> JOther("missing"), issue |-> JOther("missing"),
     definition |-> JOther("missing"), examples |-> JOther("missing")]

\* json.loads and the isinstance tests of both parsers: the list to walk
ConceptItems(raw_response) ==
    IF raw_response.kind \in {"list", "object"} THEN raw_response.items ELSE <<>>

\* _parse_candidates(raw_response)
ParseCandidates(raw_response) ==
    LET usable == SelectSeq(ConceptItems(raw_response),
                     LAMBDA item : /\ item.isDict
                                   /\ item.name.t = "str"
                                   /\ Strip(item.name.s) # <<>>)
    IN [i \in 1..Len(usable) |->
          ConceptCandidate(Strip(usable[i].name.s),
                           IF usable[i].issue.t = "str"
                           THEN IssueOf(Strip(usable[i].issue.s)) ELSE IssueNone)]

\* The examples of one item of the definition payload
ParseExamples(examples_raw) ==
    CASE examples_raw.t = "list" ->
             SelectSeq([i \in 1..Len(examples_raw.items) |->
                           StrOf(examples_raw.items[i])],
                       LAMBDA e : e # <<>>)
      [] examples_raw.t = "str" ->
             IF Strip(examples_raw.s) # <<>> THEN <<Strip(examples_raw.s)>> ELSE <<>>
      [] OTHER -> <<>>

\* _parse_definition_payload(raw_response)
ParseDefinitionPayload(raw_response) ==
    LET usable == SelectSeq(ConceptItems(raw_response),
                     LAMBDA item : /\ item.isDict
                                   /\ item.name.t = "str"
                                   /\ item.definition.t = "str"
                                   /\ Strip(item.name.s) # <<>>
                                   /\ Strip(item.definition.s) # <<>>)
    IN [i \in 1..Len(usable) |->
          ConceptDefinitionPayload(Strip(usable[i].name.s),
                                   Strip(usable[i].definition.s),
                                   ParseExamples(usable[i].examples),
                                   IssueNone)]

\* One answer of the generator: it raises, or returns a response
Raises == [raises |-> TRUE, text |-> GenNone]
Returns(raw_response) == [raises |-> FALSE, text |-> raw_response]

\* The generator of a call: absent (_get_text_generator() is None), or its
\* answers to the identification prompt and to the definition prompt
NoGenerator == [available |-> FALSE, identify |-> Raises, define |-> Raises]
Generator(identify, define) ==
    [available |-> TRUE, identify |-> identify, define |-> define]

\* raw_response after the guarded generate_response call of a stage
RawResponse(available, answer) ==
    IF available /\ ~answer.raises THEN answer.text ELSE GenNone

\* _identify_unclear_concepts: (candidates, used_fallback)
IdentifyUnclearConcepts(outline, project_fragment, generator) ==
    LET candidates ==
            ParseCandidates(RawResponse(generator.available, generator.identify))
    IN IF candidates = <<>>
       THEN [candidates |-> FallbackCandidates(outline, project_fragment),
             used_fallback |-> TRUE]
       ELSE [candidates |-> candidates, used_fallback |-> FALSE]

\* _define_concepts: (definitions, used_fallback)
DefineConcepts(outline, candidates, project_fragment, generator) ==
    LET definitions ==
            ParseDefinitionPayload(RawResponse(generator.available, generator.define))
    IN IF definitions = <<>>
       THEN [definitions |->
                 FallbackConceptDefinitions(outline, candidates, project_fragment),
             used_fallback |-> TRUE]
       ELSE [definitions |-> definitions, used_fallback |-> FALSE]

\* The issue the candidate map holds for a name: the last candidate with
\* that name wins (dict comprehension)
CandidateIssue(candidates, name_key) ==
    LET hits == {i \in 1..Len(candidates) : Casefold(candidates[i].name) = name_key}
    IN IF hits = {} THEN IssueNone
       ELSE candidates[CHOOSE i \in hits : \A j \in hits : j <= i].issue

RECURSIVE CombineAnyName(_, _, _)
\* A combination that keeps every definition, repeated names included
CombineAnyName(definitions, candidates, seen) ==
    IF definitions = <<>> THEN <<>>
    ELSE LET payload == Head(definitions)
             name_key == Casefold(payload.name)
         IN IF payload.name = <<>> \/ payload.definition = <<>>
            THEN CombineAnyName(Tail(definitions), candidates, seen)
            ELSE <<ConceptDefinitionPayload(payload.name, payload.definition,
                       payload.examples, CandidateIssue(candidates, name_key))>>
                 \o CombineAnyName(Tail(definitions), candidates,
                                   seen \cup {name_key})

RECURSIVE Combine(_, _, _)
\* The loop of clarify_outline_concepts over the definitions
Combine(definitions, candidates, seen) ==
    IF definitions = <<>> THEN <<>>
    ELSE LET payload == Head(definitions)
             name_key == Casefold(payload.name)
         IN IF payload.name = <<>> \/ payload.definition = <<>> \/ name_key \in seen
            THEN Combine(Tail(definitions), candidates, seen)
            ELSE <<ConceptDefinitionPayload(payload.name, payload.definition,
                       payload.examples, CandidateIssue(candidates, name_key))>>
                 \o Combine(Tail(definitions), candidates, seen \cup {name_key})

\* The prompt configuration: whether each stage's entry has a prompt_template
Templates(identify, define) == [identify |-> identify, define |-> define]

\* What a call of clarify_outline_concepts ends with
Clarified(error, concepts, used_fallback, stages, generator_calls) ==
    [error |-> error, concepts |-> concepts, used_fallback |-> used_fallback,
     stages |-> stages, generator_calls |-> generator_calls]

\* used_fallback = identify_fallback or define_fallback
UsedFallback(identify_fallback, define_fallback) ==
    identify_fallback \/ define_fallback

\* clarify_outline_concepts(outline_text, project_title=project_title).
\* stages records which stages fell back to the heuristic
ClarifyOutlineConcepts(outline_text, project_title, templates, generator) ==
    LET cleaned_outline == Strip(outline_text)
        project_fragment == ProjectFragment(project_title)
        once == IF generator.available THEN 1 ELSE 0
        identified ==
            IdentifyUnclearConcepts(cleaned_outline, project_fragment, generator)
        defined == DefineConcepts(cleaned_outline, identified.candidates,
                                  project_fragment, generator)
    IN IF cleaned_outline = <<>> \/ ~templates.identify
       THEN Clarified("ConceptClarificationError", <<>>, FALSE, <<>>, 0)
       ELSE IF identified.candidates = <<>>
       THEN Clarified("", <<>>, identified.used_fallback,
                      <<identified.used_fallback>>, once)
       ELSE IF ~templates.define
       THEN Clarified("ConceptClarificationError", <<>>, FALSE,
                      <<identified.used_fallback>>, once)
       ELSE Clarified("",
                Combine(defined.definitions, identified.candidates, {}),
                UsedFallback(identified.used_fallback, defined.used_fallback),
                <<identified.used_fallback, defined.used_fallback>>,
                once + once)

----------------------------------------------------------------------------
(* Direct calls of clarify_outline_concepts *)

\* Items one generator response lists at most
MaxConceptItems == 2

Abbot == <<"A", "b", "b", "o", "t">>
abbot == <<"a", "b", "b", "o", "t">>
about == <<"a", "b", "o", "u", "t">>

\* Outlines: a repeated word; the same word with and without a trailing
\* apostrophe; a stopword; a short word; a word with an inner apostrophe;
\* blank text
ConceptOutlines ==
    { abbot \o <<"SP">> \o abbot,
      abbot \o <<"'", "SP">> \o Abbot \o <<"'", "NL", "SP">> \o abbot
            \o <<"SP">> \o abbot,
      about \o <<"SP">> \o about \o <<"SP", "t", "a", "b", "SP", "t", "a", "b">>,
      <<"a", "b", "'", "o", "t", "SP", "A", "b", "'", "o", "t", "SP">> \o abbot,
      <<"SP", "NL">> }

ProjectTitles == {<<>>, <<"SP", "T", "a", "b">>}

\* The items of an answer to the identification prompt
CandidateItems ==
    { ConceptItem(JStr(<<"SP">> \o Abbot), JStr(<<"o", "u", "t", "SP">>),
                  JOther("missing"), JOther("missing")),
      ConceptItem(JStr(abbot), JOther("null"), JOther("missing"), JOther("missing")),
      ConceptItem(JStr(<<"SP">>), JStr(<<"o", "u", "t">>),
                  JOther("missing"), JOther("missing")) }

\* The items of an answer to the definition prompt
DefinitionItems ==
    { ConceptItem(JStr(Abbot), JOther("missing"), JStr(<<"a", "SP", "t", "o", "SP">>),
                  ExamplesList(<<JStr(<<"SP", "a">>), JStr(<<"SP">>), JInt(1)>>)),
      ConceptItem(JStr(abbot), JOther("missing"), JStr(<<"b">>), JStr(<<"t", "SP">>)),
      ConceptItem(JStr(<<"T", "a", "b">>), JOther("missing"), JStr(<<"SP">>),
                  JOther("null")),
      ConceptNonObject }

\* The lists of at most n items of a set
ItemLists(items, n) == UNION {[1..k -> items] : k \in 0..n}

\* The answers a stage may get for its items
Answers(items) ==
    {Raises, Returns(GenNone), Returns(GenEmpty), Returns(GenInvalid),
     Returns(GenOther)}
    \cup {Returns(GenObject(l)) : l \in ItemLists(items, MaxConceptItems)}
    \cup {Returns(GenList(l)) : l \in ItemLists(items, 1)}

Generators ==
    {NoGenerator} \cup
    {Generator(i, d) : i \in Answers(CandidateItems), d \in Answers(DefinitionItems)}

TemplateConfigs == {Templates(i, d) : i, d \in BOOLEAN}

\* clarify_outline_concepts(outline_text, project_title=project_title)
CallClarify ==
    /\ fn = "none"
    /\ \E outline_text \in ConceptOutlines, project_title \in ProjectTitles,
          templates \in TemplateConfigs, generator \in Generators :
          /\ arg' = [outline_text |-> outline_text, project_title |-> project_title,
                     templates |-> templates, generator |-> generator]
          /\ out' = ClarifyOutlineConcepts(outline_text, project_title,
                                           templates, generator)
    /\ fn' = "clarify"
    /\ UNCHANGED restVars

NextClarify ==
    \/ CallClarify
    \/ CallOver

SpecClarify == Init /\ [][NextClarify]_vars

\* Whether a stage of the call in arg got no usable item from the generator
NothingUsable(stage) ==
    IF stage = "identify"
    THEN ParseCandidates(RawResponse(arg.generator.available,
                                     arg.generator.identify)) = <<>>
    ELSE ParseDefinitionPayload(RawResponse(arg.generator.available,
                                            arg.generator.define)) = <<>>

\* C22: a call of clarify_outline_concepts that returns invoked the
\* generator at most twice (never without a generator); used_fallback is
\* true exactly when the identification stage or the definition stage fell
\* back to the heuristic; no two returned concepts have names that are equal
\* ignoring case, and no returned concept has an empty name or definition.
C22_ClarifyResult ==
    (fn = "clarify" /\ out.error = "") =>
        /\ out.generator_calls <= 2
        /\ out.generator_calls = IF arg.generator.available THEN Len(out.stages) ELSE 0
        /\ Len(out.stages) = 2
        /\ out.stages[1] <=> NothingUsable("identify")
        /\ out.stages[2] <=> NothingUsable("define")
        /\ out.used_fallback <=> (out.stages[1] \/ out.stages[2])
        /\ ~arg.generator.available => out.used_fallback
        /\ \A i, j \in 1..Len(out.concepts) :
              i # j => Casefold(out.concepts[i].name) # Casefold(out.concepts[j].name)
        /\ \A i \in 1..Len(out.concepts) :
              out.concepts[i].name # <<>> /\ out.concepts[i].definition # <<>>

\* The generator defined "Abbot" and "abbot": one concept is returned, from
\* the generator alone
C22_Witness ==
    /\ fn = "clarify"
    /\ out.error = ""
    /\ arg.generator.available
    /\ arg.generator.define.text.kind = "object"
    /\ Len(ParseDefinitionPayload(arg.generator.define.text)) = 2
    /\ Len(out.concepts) = 1
    /\ ~out.used_fallback
    /\ out.generator_calls = 2


----------------------------------------------------------------------------
(***************************************************************************)
(* The app package: its tables and the routes of the projects blueprint     *)
(*                                                                         *)
(* db is a record of tables.  db.projects maps a project id to the row's   *)
(* owner, title, status and current_step; the other tables are sequences   *)
(* of rows in insertion order, each row carrying its project_id.  reply is *)
(* what the last request answered: its route, the logged-in user, the      *)
(* project id, the HTTP status and the body.                               *)
(***************************************************************************)

Users == {1, 2}

\* The project ids a request may name; the last one has no row
ProjectIds == {1, 2}
UnknownProject == Cardinality(ProjectIds) + 1

\* Project(title=..., owner=current_user): status and current_step take
\* their column defaults
ProjectRow(owner, title) ==
    [owner |-> owner, title |-> title, status |-> "draft",
     current_step |-> "outline", last_outline_prompt |-> <<>>]

\* OutlineDraft
OutlineRow(id, project_id, title, content) ==
    [id |-> id, project_id |-> project_id, title |-> title, content |-> content]

\* "\n".join(concept.examples)
JoinExamples(examples) == Join(examples, <<"NL">>)

\* ConceptDefinition(project=project, outline_id=outline.id, ...)
ConceptRow(project_id, outline_id, concept, used_fallback) ==
    [project_id |-> project_id, outline_id |-> outline_id,
     name |-> concept.name,
     clarity_issue |-> IF concept.issue.some /\ concept.issue.s # <<>>
                       THEN concept.issue ELSE IssueNone,
     definition |-> concept.definition,
     examples |-> JoinExamples(concept.examples),
     used_fallback |-> used_fallback]

\* The rows the loop of generate_concepts adds for a result
ConceptRows(project_id, outline_id, result) ==
    [i \in 1..Len(result.concepts) |->
        ConceptRow(project_id, outline_id, result.concepts[i], result.used_fallback)]

\* Query.filter_by(project_id=...).all() on a table
RowsOf(table, project_id) == SelectSeq(table, LAMBDA row : row.project_id = project_id)

\* Query.filter_by(project_id=...).delete() on a table
WithoutRowsOf(table, project_id) ==
    SelectSeq(table, LAMBDA row : row.project_id # project_id)

\* A route that adds the new concepts to the stored ones
StoreConceptsKeeping(table, project_id, outline_id, result) ==
    table \o ConceptRows(project_id, outline_id, result)

\* generate_concepts: delete the project's concepts, add the result's, commit
StoreConcepts(table, project_id, outline_id, result) ==
    WithoutRowsOf(table, project_id) \o ConceptRows(project_id, outline_id, result)

\* What a request answers
Reply(route, user, project_id, status, body) ==
    [route |-> route, user |-> user, project_id |-> project_id,
     status |-> status, body |-> body]

\* A test that lets every logged-in user through
RefusedUnknownOnly(user, project_id) ==
    IF project_id \notin DOMAIN db.projects THEN 404 ELSE 0

\* Project.query.get_or_404(project_id), then the owner test: 0 when the
\* handler goes on
Refused(user, project_id) ==
    IF project_id \notin DOMAIN db.projects THEN 404
    ELSE IF db.projects[project_id].owner # user THEN 403
    ELSE 0

\* request.get_json(silent=True) or {}: the outline_id member of an object
Payload(outline_id) == [isDict |-> TRUE, outline_id |-> outline_id]
\* a body that is a JSON list, number or string
PayloadNonObject == [isDict |-> FALSE, outline_id |-> JOther("missing")]

\* OutlineDraft.query.filter_by(id=outline_id, project_id=project.id).first()
FindOutline(outline_id, project_id) ==
    SelectSeq(db.outlines,
              LAMBDA row : row.id = outline_id /\ row.project_id = project_id)

\* What generate_concepts does for the owner: the status, the body and the
\* concept table to commit
ConceptsOutcome(project_id, payload, templates, generator) ==
    LET kept(status) == [status |-> status, result |-> <<>>, outline_id |-> 0,
                         concepts |-> db.concepts]
        analysed(outline, result) ==
            IF result.error # "" THEN kept(400)
            ELSE [status |-> 200, result |-> result, outline_id |-> outline.id,
                  concepts |-> StoreConcepts(db.concepts, project_id, outline.id,
                                             result)]
        stripped(outline, outline_content) ==
            IF outline_content = <<>> THEN kept(400)
            ELSE analysed(outline,
                          ClarifyOutlineConcepts(outline_content,
                              db.projects[project_id].title, templates, generator))
        located(found) ==
            IF found = <<>> THEN kept(404)
            ELSE stripped(found[1], Strip(found[1].content))
        coerced(outline_id) ==
            IF outline_id.error \in {"TypeError", "ValueError"} THEN kept(400)
            ELSE IF outline_id.error # "" THEN kept(500)
            ELSE located(FindOutline(outline_id.n, project_id))
    IN IF ~payload.isDict THEN kept(500)
       ELSE coerced(IntOf(payload.outline_id))

\* generate_concepts: what it answers and what it stores
ConceptsHandled(user, project_id, payload, templates, generator) ==
    LET answered(outcome) ==
            /\ reply' = Reply("generate_concepts", user, project_id,
                              outcome.status,
                              [payload |-> payload,
                               result |-> outcome.result,
                               outline_id |-> outcome.outline_id])
            /\ db' = [db EXCEPT !.concepts = outcome.concepts]
    IN IF Refused(user, project_id) # 0
       THEN /\ reply' = Reply("generate_concepts", user, project_id,
                              Refused(user, project_id),
                              [payload |-> payload, result |-> <<>>,
                               outline_id |-> 0])
            /\ UNCHANGED db
       ELSE answered(ConceptsOutcome(project_id, payload, templates, generator))

\* POST /<project_id>/concepts
GenerateConcepts(user, project_id, payload, templates, generator) ==
    /\ ConceptsHandled(user, project_id, payload, templates, generator)
    /\ UNCHANGED <<project, pc, eng, ret, results, structured_results, all_valid,
                   chapter_error, chapter_warning, backend, calls, log,
                   raised_at, finals, verdicts, requests, pureVars, chatVars>>


\* The outlines of the seeded projects: two with words, a blank one (saved
\* through the outline form with blank content), one of the other project
SeedOutlines ==
    << OutlineRow(1, 1, <<"a">>, abbot \o <<"SP">> \o abbot),
       OutlineRow(2, 1, <<"b">>,
                  abbot \o <<"'", "SP">> \o Abbot \o <<"'", "SP">> \o abbot
                        \o <<"SP">> \o abbot),
       OutlineRow(3, 1, <<"b">>, <<>>),
       OutlineRow(4, 2, <<"a">>, about \o <<"SP">> \o about) >>

\* Two projects of two owners, each with the concepts an earlier analysis
\* of its first outline stored when no generator was configured
SeedDb ==
    [projects |-> (1 :> ProjectRow(1, <<"T", "a", "b">>)) @@ (2 :> ProjectRow(2, <<>>)),
     outlines |-> SeedOutlines,
     acts |-> <<>>,
     characters |-> <<>>,
     stages |-> <<>>,
     concepts |->
         ConceptRows(1, 1, ClarifyOutlineConcepts(SeedOutlines[1].content,
                               <<"T", "a", "b">>, Templates(TRUE, TRUE), NoGenerator))
         \o ConceptRows(2, 4, ClarifyOutlineConcepts(SeedOutlines[4].content,
                               <<>>, Templates(TRUE, TRUE), NoGenerator))]

NoReply == Reply("none", 0, 0, 0, <<>>)

\* The bodies a concepts request may carry
ConceptPayloads ==
    {PayloadNonObject, Payload(JOther("missing")), Payload(JStr(<<"a">>)),
     Payload(JStr(<<"SP", "2">>)), Payload(JOther("inf"))}
    \cup {Payload(JInt(n)) : n \in 1..(Len(SeedOutlines) + 1)}

\* The generators a request of the app package may meet
RouteGenerators ==
    {NoGenerator,
     Generator(Raises, Returns(GenInvalid)),
     Generator(Returns(GenObject(<<ConceptItem(JStr(Abbot), JStr(<<"o", "u", "t">>),
                                              JOther("missing"), JOther("missing"))>>)),
               Returns(GenObject(<<
                   ConceptItem(JStr(Abbot), JOther("missing"), JStr(<<"a">>),
                               ExamplesList(<<JStr(<<"a">>), JStr(<<"b">>)>>)),
                   ConceptItem(JStr(<<"T", "a", "b">>), JOther("missing"),
                               JStr(<<"b">>), JOther("null"))>>))),
     Generator(Returns(GenList(<<ConceptItem(JStr(abbot), JOther("null"),
                                            JOther("missing"), JOther("missing"))>>)),
               Raises)}

\* The prompt configurations a request of the app package may meet
RouteTemplates == TemplateConfigs \ {Templates(FALSE, FALSE)}

InitConcepts ==
    /\ InitApp /\ InitPure
    /\ backend = AppResponses
    /\ pc = "idle"
    /\ eng = NoEngine
    /\ ret = NoReturn
    /\ calls = 0
    /\ log = <<>>
    /\ raised_at = 0
    /\ db = SeedDb
    /\ reply = NoReply
    /\ InitChat

NextConcepts ==
    \E user \in Users, project_id \in ProjectIds \cup {UnknownProject},
       payload \in ConceptPayloads, templates \in RouteTemplates,
       generator \in RouteGenerators :
       GenerateConcepts(user, project_id, payload, templates, generator)

SpecConcepts == InitConcepts /\ [][NextConcepts]_vars

\* C21: a POST to generate_concepts that succeeds leaves, for its project,
\* exactly the concepts of the clarification result, in order, each linked
\* to the outline the request named, and leaves the concepts of every other
\* project alone; a request that is rejected leaves all stored concepts
\* unchanged.
C21_ConceptsReplaced ==
    [][reply'.route = "generate_concepts" =>
        LET project_id == reply'.project_id
            body == reply'.body
            stored == RowsOf(db'.concepts, project_id)
        IN IF reply'.status = 200
           THEN /\ db.projects[project_id].owner = reply'.user
                /\ body.outline_id = IntOf(body.payload.outline_id).n
                /\ \E i \in 1..Len(db.outlines) :
                      /\ db.outlines[i].id = body.outline_id
                      /\ db.outlines[i].project_id = project_id
                      /\ Strip(db.outlines[i].content) # <<>>
                /\ Len(stored) = Len(body.result.concepts)
                /\ \A i \in 1..Len(stored) :
                      /\ stored[i].name = body.result.concepts[i].name
                      /\ stored[i].definition = body.result.concepts[i].definition
                      /\ stored[i].examples =
                             JoinExamples(body.result.concepts[i].examples)
                      /\ stored[i].used_fallback = body.result.used_fallback
                      /\ stored[i].outline_id = body.outline_id
                /\ \A other \in ProjectIds \ {project_id} :
                      RowsOf(db'.concepts, other) = RowsOf(db.concepts, other)
           ELSE db'.concepts = db.concepts]_vars

\* The owner of project 1 had its second outline analysed by the generator:
\* the concepts of the first outline are gone, those of project 2 are kept
C21_Witness ==
    /\ reply.route = "generate_concepts"
    /\ reply.status = 200
    /\ reply.project_id = 1
    /\ ~reply.body.result.used_fallback
    /\ Len(RowsOf(db.concepts, 1)) = 2
    /\ \A i \in 1..Len(db.concepts) :
          db.concepts[i].project_id = 1 => db.concepts[i].outline_id = 2
    /\ RowsOf(db.concepts, 2) = RowsOf(SeedDb.concepts, 2)
    /\ RowsOf(db.concepts, 2) # <<>>


----------------------------------------------------------------------------
(***************************************************************************)
(* app/services/autofill.py: draft_character_profile                        *)
(*                                                                         *)
(* A generator response is modelled by the document its text holds once    *)
(* the ```json fence and any prose before the first brace are removed:     *)
(* None or "", blank text, text json.loads rejects, a JSON scalar, an      *)
(* object, or a list of entries.  For the prompt of one field an object is *)
(* described by its member of that name (own), its "character" member and  *)
(* its "value" member, an entry of a list by its member of that name.      *)
(***************************************************************************)

\* ordered_fields
OrderedFields == <<"name", "role", "background", "goals", "conflict", "notes">>

FieldNames == {OrderedFields[i] : i \in 1..Len(OrderedFields)}

\* Optional[str]
NoValue == [some |-> FALSE, s |-> <<>>]
Value(s) == [some |-> TRUE, s |-> s]

\* _clean_field(value) for a JSON value
CleanField(value) ==
    IF value.t = "str" /\ Strip(value.s) # <<>> THEN Value(Strip(value.s)) ELSE NoValue

RECURSIVE StripQuotes(_)
\* text.strip('"'), the double quote being the token "Q"
StripQuotes(s) ==
    IF s # <<>> /\ Head(s) = "Q" THEN StripQuotes(Tail(s))
    ELSE IF s # <<>> /\ s[Len(s)] = "Q" THEN StripQuotes(SubSeq(s, 1, Len(s) - 1))
    ELSE s

MissingMember == JOther("missing")

FieldDoc(kind, text, own, character, value, entries) ==
    [kind |-> kind, text |-> text, own |-> own, character |-> character,
     value |-> value, entries |-> entries]

NoCharacter == [present |-> FALSE, isDict |-> FALSE, own |-> MissingMember]
Character(own) == [present |-> TRUE, isDict |-> TRUE, own |-> own]
CharacterNonObject == [present |-> TRUE, isDict |-> FALSE, own |-> MissingMember]

\* None or the empty string
DocNone == FieldDoc("none", <<>>, MissingMember, NoCharacter, MissingMember, <<>>)
\* text that is not JSON
DocText(text) == FieldDoc("text", text, MissingMember, NoCharacter, MissingMember, <<>>)
\* a JSON number, string, boolean or null
DocScalar == FieldDoc("scalar", <<>>, MissingMember, NoCharacter, MissingMember, <<>>)
DocObject(own, character, value) == FieldDoc("object", <<>>, own, character, value, <<>>)
DocList(entries) == FieldDoc("list", <<>>, MissingMember, NoCharacter, MissingMember, entries)

\* An entry of a list document: an object with or without the member, or
\* not an object
ListEntry(isDict, own) == [isDict |-> isDict, own |-> own]

\* _parse_single_field_response(raw_text, field)
ParseSingleFieldResponse(raw_text, field) ==
    CASE raw_text.kind = "none" -> NoValue
      [] raw_text.kind = "text" ->
             IF Strip(raw_text.text) = <<>> THEN NoValue
             ELSE CleanField(JStr(StripQuotes(Strip(raw_text.text))))
      [] raw_text.kind = "object" ->
             IF raw_text.own.t # "missing" THEN CleanField(raw_text.own)
             ELSE IF raw_text.character.present /\ raw_text.character.isDict
             THEN CleanField(raw_text.character.own)
             ELSE IF raw_text.value.t # "missing" /\ field = "notes"
             THEN CleanField(raw_text.value)
             ELSE NoValue
      [] raw_text.kind = "list" ->
             LET holding == SelectSeq(raw_text.entries,
                                LAMBDA e : e.isDict /\ e.own.t # "missing")
             IN IF holding = <<>> THEN NoValue ELSE CleanField(holding[1].own)
      [] OTHER -> NoValue

\* prompt_text[:160] in _fallback_single_character
ExcerptLimit == 160

\* _fallback_single_character(project_title, prompt_text)
FallbackSingleCharacter(project_title, prompt_text) ==
    LET head == RStrip(SubSeq(prompt_text, 1,
                    IF Len(prompt_text) > ExcerptLimit
                    THEN ExcerptLimit ELSE Len(prompt_text)))
        concept_excerpt == IF Len(prompt_text) > ExcerptLimit
                           THEN head \o <<"...">> ELSE head
        title_fragment == IF project_title = <<>> THEN <<"the story">> ELSE project_title
    IN [field \in FieldNames |->
          CASE field = "name" -> <<"Provisional Lead">>
            [] field = "role" -> <<"Key figure shaping ">> \o title_fragment
            [] field = "background" ->
                   Strip(<<"Known for navigating ">>
                         \o (IF concept_excerpt = <<>>
                             THEN <<"uncertain terrain">> ELSE concept_excerpt)
                         \o <<" with quiet resilience.">>)
            [] field = "goals" -> <<"Determined to push">>
            [] field = "conflict" -> <<"Faces escalating pressure">>
            [] field = "notes" -> <<"Track how alliances shift">>]

\* (project_title or "the story").strip() or "the story"
StoryFragment(project_title) ==
    LET fragment == Strip(IF project_title = <<>>
                          THEN <<"the story">> ELSE project_title)
    IN IF fragment = <<>> THEN <<"the story">> ELSE fragment

(***************************************************************************)
(* The prompt configuration entry "single_character_autofill": whether it  *)
(* exists, whether it has a prompt_template, and its field_templates: not  *)
(* an object, or for each field one of                                     *)
(*   "str"    a template text            "empty"  the empty string         *)
(*   "none"   no member, or null         "number" a value that is no text  *)
(*   "broken" a text str.format rejects (an unknown placeholder)           *)
(***************************************************************************)
ProfileConfig(entry, prompt_template, isDict, kinds) ==
    [entry |-> entry, prompt_template |-> prompt_template,
     isDict |-> isDict, kinds |-> kinds]

\* isinstance(template, str)
Templated(kind) == kind \in {"str", "empty", "broken"}

\* any(field_templates_raw.get(field) for field in ordered_fields)
AnyFieldTemplate(config) ==
    config.isDict /\ \E field \in FieldNames : config.kinds[field] \in {"str", "number", "broken"}

\* The generator of a call: its answer to each field prompt and to the
\* single prompt
ProfileGenerator(available, fields, single) ==
    [available |-> available, fields |-> fields, single |-> single]

\* What a call of draft_character_profile ends with; calls lists the fields
\* whose prompt was handed to the generator
Suggestion(error, profile, used_fallback, prompts, invoked) ==
    [error |-> error, profile |-> profile, used_fallback |-> used_fallback,
     prompts |-> prompts, calls |-> invoked]

\* A loop that reports a fallback only when it has no value at all
FieldValueSilent(value, fallback_value, used_fallback) ==
    IF value.some THEN [s |-> value.s, used_fallback |-> used_fallback]
    ELSE [s |-> fallback_value, used_fallback |-> used_fallback \/ fallback_value = <<>>]

\* The value a field gets and the flag after it: the parsed value, or the
\* fallback profile's
FieldValue(value, fallback_value, used_fallback) ==
    IF value.some THEN [s |-> value.s, used_fallback |-> used_fallback]
    ELSE [s |-> fallback_value, used_fallback |-> TRUE]

\* response_text after the guarded generate_response call
FieldResponse(available, answer) ==
    IF available /\ ~answer.raises THEN answer.text ELSE DocNone

RECURSIVE FieldLoop(_, _, _, _, _)
\* for field in ordered_fields, from the i-th field on
FieldLoop(i, config, generator, fallback_profile, done) ==
    IF i > Len(OrderedFields)
    THEN IF DOMAIN done.profile = {}
         THEN Suggestion("CharacterProfileSuggestionError", <<>>, FALSE,
                         done.prompts, done.calls)
         ELSE done
    ELSE LET field == OrderedFields[i]
             kind == config.kinds[field]
             value == ParseSingleFieldResponse(
                          FieldResponse(generator.available, generator.fields[field]),
                          field)
             next == FieldValue(value, fallback_profile[field], done.used_fallback)
         IN IF ~Templated(kind)
            THEN FieldLoop(i + 1, config, generator, fallback_profile, done)
            ELSE IF kind = "broken"
            THEN Suggestion("KeyError", <<>>, FALSE, done.prompts, done.calls)
            ELSE FieldLoop(i + 1, config, generator, fallback_profile,
                     Suggestion("",
                         IF next.s # <<>>
                         THEN (field :> next.s) @@ done.profile ELSE done.profile,
                         next.used_fallback,
                         Append(done.prompts, field),
                         IF generator.available
                         THEN Append(done.calls, field) ELSE done.calls))

\* The document of the single prompt: the text found under each profile key
\* of the object the parser settles on, when there is one
ProfileDoc(kind, members) == [kind |-> kind, members |-> members]

\* json.dumps(_fallback_single_character(...))
DumpProfile(profile) ==
    ProfileDoc("object", [field \in FieldNames |-> JStr(profile[field])])

\* _parse_character_profile_response(raw_text): the keys with a value
ParseCharacterProfileResponse(raw_text) ==
    IF raw_text.kind # "object" THEN <<>>
    ELSE LET kept == {field \in FieldNames : CleanField(raw_text.members[field]).some}
         IN [field \in kept |-> CleanField(raw_text.members[field]).s]

\* draft_character_profile(user_prompt, project_title=project_title)
DraftCharacterProfile(user_prompt, project_title, config, generator) ==
    LET prompt_text == Strip(user_prompt)
        project_fragment == StoryFragment(project_title)
        fallback_profile == FallbackSingleCharacter(project_fragment, prompt_text)
        answered == generator.available /\ ~generator.single.raises
                    /\ generator.single.text.kind # "none"
        profile == ParseCharacterProfileResponse(
                       IF answered THEN generator.single.text
                       ELSE DumpProfile(fallback_profile))
        once == IF generator.available THEN <<"single">> ELSE <<>>
    IN IF prompt_text = <<>> \/ ~config.entry \/ ~config.prompt_template
       THEN Suggestion("CharacterProfileSuggestionError", <<>>, FALSE, <<>>, <<>>)
       ELSE IF AnyFieldTemplate(config)
       THEN FieldLoop(1, config, generator, fallback_profile,
                      Suggestion("", <<>>, FALSE, <<>>, <<>>))
       ELSE IF DOMAIN profile = {}
       THEN Suggestion("CharacterProfileSuggestionError", <<>>, FALSE,
                       <<"single">>, once)
       ELSE Suggestion("", profile, ~answered, <<"single">>, once)

----------------------------------------------------------------------------
(* Direct calls of draft_character_profile *)

ProfilePrompts == {<<"a">>, <<"SP", "a", "SP", "b">>, <<"SP">>}

\* Every field with the same kind of template
AllFields(kind) == [field \in FieldNames |-> kind]

\* field_templates: every field templated; all but name; conflict alone; an
\* empty text for name; a number for name alone; a broken text for goals;
\* nothing usable
FieldTemplateKinds ==
    { AllFields("str"),
      [AllFields("str") EXCEPT !["name"] = "none"],
      [AllFields("none") EXCEPT !["conflict"] = "str"],
      [AllFields("none") EXCEPT !["name"] = "empty", !["role"] = "str"],
      [AllFields("none") EXCEPT !["name"] = "number"],
      [AllFields("str") EXCEPT !["goals"] = "broken"],
      AllFields("empty") }

ProfileConfigs ==
    { ProfileConfig(FALSE, FALSE, FALSE, AllFields("none")),
      ProfileConfig(TRUE, FALSE, TRUE, AllFields("str")),
      ProfileConfig(TRUE, TRUE, FALSE, AllFields("none")) }
    \cup {ProfileConfig(TRUE, TRUE, TRUE, kinds) : kinds \in FieldTemplateKinds}

\* The answers to a field prompt that every field may get independently
FieldAnswers ==
    { Raises,
      Returns(DocObject(JStr(<<"SP", "a">>), NoCharacter, MissingMember)),
      Returns(DocObject(MissingMember, NoCharacter, MissingMember)) }

\* Further answers, given to every field alike
FurtherAnswers ==
    { Returns(DocNone), Returns(DocScalar),
      Returns(DocText(<<"SP">>)), Returns(DocText(<<"Q">>)),
      Returns(DocText(<<"Q", "b", "SP">>)),
      Returns(DocObject(JInt(1), Character(JStr(<<"b">>)), MissingMember)),
      Returns(DocObject(MissingMember, Character(JStr(<<"b">>)), JStr(<<"a">>))),
      Returns(DocObject(MissingMember, CharacterNonObject, JStr(<<"b">>))),
      Returns(DocList(<<ListEntry(FALSE, MissingMember), ListEntry(TRUE, MissingMember),
                        ListEntry(TRUE, JStr(<<"b">>)), ListEntry(TRUE, JStr(<<"a">>))>>)) }

\* The answers to the single prompt
SingleAnswers ==
    { Raises, Returns(ProfileDoc("none", AllFields(MissingMember))),
      Returns(ProfileDoc("invalid", AllFields(MissingMember))),
      Returns(ProfileDoc("object", AllFields(JStr(<<"SP">>)))),
      Returns(ProfileDoc("object",
                  [AllFields(MissingMember) EXCEPT !["name"] = JStr(<<"a", "SP">>)])) }

ProfileGenerators ==
    {ProfileGenerator(FALSE, AllFields(Raises), Raises)}
    \cup {ProfileGenerator(TRUE, fields, Raises) : fields \in [FieldNames -> FieldAnswers]}
    \cup {ProfileGenerator(TRUE, AllFields(answer), Raises) : answer \in FurtherAnswers}
    \cup {ProfileGenerator(TRUE, AllFields(Raises), single) : single \in SingleAnswers}

\* draft_character_profile(user_prompt, project_title=project_title)
CallDraftProfile ==
    /\ fn = "none"
    /\ \E user_prompt \in ProfilePrompts, project_title \in ProjectTitles,
          config \in ProfileConfigs, generator \in ProfileGenerators :
          /\ arg' = [user_prompt |-> user_prompt, project_title |-> project_title,
                     config |-> config, generator |-> generator]
          /\ out' = DraftCharacterProfile(user_prompt, project_title, config, generator)
    /\ fn' = "profile"
    /\ UNCHANGED restVars

NextProfile ==
    \/ CallDraftProfile
    \/ CallOver

SpecProfile == Init /\ [][NextProfile]_vars

\* The fields of the call in arg that have a template text, in the fixed order
TemplatedFields ==
    SelectSeq(OrderedFields, LAMBDA field : Templated(arg.config.kinds[field]))

\* What the generator's answer to a field of the call in arg yields
Yielded(field) ==
    ParseSingleFieldResponse(
        FieldResponse(arg.generator.available, arg.generator.fields[field]), field)

\* C23: with per-field templates configured, a call of
\* draft_character_profile that returns has prompted for every templated
\* field once, in the order name, role, background, goals, conflict, notes,
\* handing each prompt to the generator when one is configured; the profile
\* holds the templated fields, each with the value its response yielded or,
\* when it yielded none, with the fallback profile's value; used_fallback is
\* true exactly when some field yielded no value.
C23_OneCallPerField ==
    (fn = "profile" /\ out.error = "" /\ AnyFieldTemplate(arg.config)) =>
        LET fallback_profile ==
                FallbackSingleCharacter(StoryFragment(arg.project_title),
                                        Strip(arg.user_prompt))
        IN /\ out.prompts = TemplatedFields
           /\ out.calls = IF arg.generator.available THEN TemplatedFields ELSE <<>>
           /\ DOMAIN out.profile = {TemplatedFields[i] : i \in 1..Len(TemplatedFields)}
           /\ \A field \in DOMAIN out.profile :
                 out.profile[field] = IF Yielded(field).some
                                      THEN Yielded(field).s
                                      ELSE fallback_profile[field]
           /\ out.used_fallback <=>
                 \E field \in DOMAIN out.profile : ~Yielded(field).some

\* Every field is templated and only the answer for conflict yields nothing
C23_Witness ==
    /\ fn = "profile"
    /\ out.error = ""
    /\ arg.generator.available
    /\ out.calls = OrderedFields
    /\ \A field \in FieldNames : Yielded(field).some <=> field # "conflict"
    /\ out.profile["conflict"] = <<"Faces escalating pressure">>
    /\ out.profile["name"] = <<"a">>
    /\ out.used_fallback



----------------------------------------------------------------------------
(* project_detail of chat_interface.py: the chat flows and their session
   histories. The text generation backend of a request is its outcome: the
   call raises, or it returns a value *)

Failure == [raises |-> TRUE, value |-> <<>>]
Success(value) == [raises |-> FALSE, value |-> value]

\* The messages of a history; the device label of an assistant message is
\* the same for every message of a deployment and is left out
UserMessage(content) == [role |-> "user", content |-> content]
AssistantMessage(content) == [role |-> "assistant", content |-> content]

NoReplyText == <<"(no reply)">>

\* "x or '(no reply)'"
OrNoReply(text) == IF text = <<>> THEN NoReplyText ELSE text

\* A handler whose except clauses leave the history as it is
PopNothing(history) == history

\* history.pop()
Pop(history) == SubSeq(history, 1, Len(history) - 1)

\* The form is answered before any flow is entered: one more request
ChatPosted ==
    /\ pc = "idle"
    /\ requests < MaxRequests
    /\ requests' = requests + 1
    /\ UNCHANGED <<pc, eng, ret, results, structured_results, all_valid,
                   chapter_error, chapter_warning, backend, calls, log,
                   raised_at, finals, verdicts, pureVars, db, reply>>

\* The default flow: the outline assistant
ChatOutline(message, outcome) ==
    LET user_message == Strip(message)
        history == Append(session.outline, UserMessage(user_message))
        assistant_reply == OrNoReply(outcome.value)
        clean_outline == Strip(assistant_reply)
    IN /\ ChatPosted
       /\ IF user_message = <<>>
          THEN /\ chat' = Chat("outline", "message", FALSE)
               /\ UNCHANGED <<session, story>>
          ELSE IF outcome.raises
          THEN /\ chat' = Chat("outline", "backend", TRUE)
               /\ session' = [session EXCEPT !.outline = Pop(history)]
               /\ UNCHANGED story
          ELSE /\ chat' = Chat("outline", "", TRUE)
               /\ session' = [session EXCEPT !.outline =
                                 Append(history, AssistantMessage(assistant_reply))]
               /\ story' = IF clean_outline # <<>> /\ clean_outline # NoReplyText
                           THEN [story EXCEPT !.outline = clean_outline]
                           ELSE story
       /\ UNCHANGED <<project, chapter_drafts>>

ActLabels == <<"Act I", "Act II", "Act III">>

\* The three assistant messages of the acts and of the chapters flow
ActMessages(history, heading, contents) ==
    history \o [a \in Acts |->
                  AssistantMessage(<<ActLabels[a], heading, "NL">>
                                   \o OrNoReply(contents[a]))]

\* chat_type "acts": outcome.value is what _generate_three_act_outline
\* returned, the three act texts
ChatActs(message, outcome) ==
    LET user_message == Strip(message)
        history == Append(session.acts, UserMessage(user_message))
        acts == [a \in Acts |-> Strip(outcome.value[a])]
    IN /\ ChatPosted
       /\ IF user_message = <<>>
          THEN /\ chat' = Chat("acts", "message", FALSE)
               /\ UNCHANGED <<session, story>>
          ELSE IF outcome.raises
          THEN /\ chat' = Chat("acts", "backend", TRUE)
               /\ session' = [session EXCEPT !.acts = Pop(history)]
               /\ UNCHANGED story
          ELSE /\ chat' = Chat("acts", "", TRUE)
               /\ session' = [session EXCEPT !.acts =
                                 ActMessages(history, "outline:", acts)]
               /\ story' = [story EXCEPT !.act_final_notes = user_message,
                                         !.act_outline = acts]
       /\ UNCHANGED <<project, chapter_drafts>>

\* What _generate_chapter_outlines returned: the text and the entries of
\* each act (the retry engine's results)
Generation(texts, structures) == [texts |-> texts, structures |-> structures]

\* chat_type "chapters", the whole request: the form is checked, the three
\* acts are generated, and the plan is stored and committed
ChatChapters(chapters_per_act, message, outcome) ==
    LET user_message == Strip(message)
        history == Append(session.chapters, UserMessage(user_message))
        chapters == [a \in Acts |-> Strip(outcome.value.texts[a])]
    IN /\ ChatPosted
       /\ IF chapters_per_act <= 0
          THEN /\ chat' = Chat("chapters", "count", FALSE)
               /\ UNCHANGED <<session, story, project>>
          ELSE IF user_message = <<>>
          THEN /\ chat' = Chat("chapters", "message", FALSE)
               /\ UNCHANGED <<session, story, project>>
          ELSE IF outcome.raises
          THEN /\ chat' = Chat("chapters", "backend", TRUE)
               /\ session' = [session EXCEPT !.chapters = Pop(history)]
               /\ UNCHANGED <<story, project>>
          ELSE /\ chat' = Chat("chapters", "", TRUE)
               /\ session' = [session EXCEPT !.chapters =
                                 ActMessages(history, "chapters:", chapters)]
               /\ story' = [story EXCEPT !.chapters_final_notes = user_message]
               /\ project' = Committed(project, outcome.value.texts,
                                       outcome.value.structures)
       /\ UNCHANGED chapter_drafts

\* An entry of the parsed analysis, and one of the parsed definitions
Issue(name, issue) == [name |-> name, issue |-> issue]
Definition(name, definition, examples) ==
    [name |-> name, definition |-> definition, examples |-> examples]

\* A Concept row; a NULL column is the empty text
Concept(name, issue, definition, examples) ==
    [name |-> name, issue |-> issue, definition |-> definition,
     examples |-> examples]

\* _format_concept_analysis_summary(concepts)
FormatConceptAnalysisSummary(concepts) ==
    IF concepts = <<>>
    THEN <<"No ambiguous concepts were detected in the outline.">>
    ELSE Join(<<<<"Potentially unclear concepts:">>>>
              \o [i \in 1..Len(concepts) |->
                    <<"-", "SP">>
                    \o (IF Strip(concepts[i].name) = <<>>
                        THEN <<"Unnamed concept">> ELSE Strip(concepts[i].name))
                    \o (IF Strip(concepts[i].issue) = <<>> THEN <<>>
                        ELSE <<":", "SP">> \o Strip(concepts[i].issue))],
              <<"NL">>)

\* The lines of one definition in _format_concept_definition_summary
DefinitionLines(entry) ==
    <<<<"NL">> \o (IF Strip(entry.name) = <<>>
                   THEN <<"Unnamed concept">> ELSE Strip(entry.name))>>
    \o (IF Strip(entry.definition) = <<>> THEN <<>>
        ELSE <<<<"Definition:", "SP">> \o Strip(entry.definition)>>)
    \o (IF entry.examples = <<>> THEN <<>>
        ELSE <<<<"Examples:">>>>
             \o [i \in 1..Len(SelectSeq(entry.examples, LAMBDA e : e # <<>>)) |->
                   <<"-", "SP">>
                   \o SelectSeq(entry.examples, LAMBDA e : e # <<>>)[i]])

RECURSIVE AllDefinitionLines(_)
AllDefinitionLines(concepts) ==
    IF concepts = <<>> THEN <<>>
    ELSE DefinitionLines(Head(concepts)) \o AllDefinitionLines(Tail(concepts))

\* _format_concept_definition_summary(concepts)
FormatConceptDefinitionSummary(concepts) ==
    IF concepts = <<>> THEN <<"No concept definitions were generated.">>
    ELSE Strip(Join(<<<<"Concept definitions:">>>> \o AllDefinitionLines(concepts),
                    <<"NL">>))

\* issue_lookup.get(name.lower(), ""): the issue of the last entry of that
\* name
IssueLookup(issues, name) ==
    LET hits == {i \in 1..Len(issues) :
                    /\ issues[i].name # <<>>
                    /\ Casefold(Strip(issues[i].name)) = Casefold(name)}
    IN IF hits = {} THEN <<>>
       ELSE Strip(issues[CHOOSE i \in hits : \A j \in hits : j <= i].issue)

RECURSIVE NewConcepts(_, _)
\* The rows _apply_concept_definitions adds, in order
NewConcepts(issues, concepts) ==
    IF concepts = <<>> THEN <<>>
    ELSE LET entry == Head(concepts)
             name == Strip(entry.name)
             definition == Strip(entry.definition)
             rest == NewConcepts(issues, Tail(concepts))
         IN IF name = <<>> \/ definition = <<>> THEN rest
            ELSE <<Concept(name, IssueLookup(issues, name), definition,
                           Join(SelectSeq(entry.examples, LAMBDA e : e # <<>>),
                                <<"NL">>))>> \o rest

\* _apply_concept_definitions: every existing row is deleted
ApplyConceptDefinitions(s, issues, concepts) ==
    [s EXCEPT !.concepts = NewConcepts(issues, concepts)]

\* What the two backend calls of the concepts flow returned, parsed
Analysis(analysis_results, definitions) ==
    [analysis_results |-> analysis_results, definitions |-> definitions]

DefaultConceptMessage ==
    <<"Analyse the outline and clarify any core concepts that seem vague.">>

\* chat_type "concepts"
ChatConcepts(message, outcome) ==
    LET additional_guidance == Strip(message)
        outline_text == Strip(story.outline)
        history ==
            Append(session.concepts,
                   UserMessage(IF additional_guidance # <<>>
                               THEN additional_guidance ELSE DefaultConceptMessage))
        analysis_results == outcome.value.analysis_results
        definitions == IF analysis_results # <<>>
                       THEN outcome.value.definitions ELSE <<>>
        analysed == Append(history, AssistantMessage(
                               FormatConceptAnalysisSummary(analysis_results)))
    IN /\ ChatPosted
       /\ IF outline_text = <<>>
          THEN /\ chat' = Chat("concepts", "outline", FALSE)
               /\ UNCHANGED <<session, story>>
          ELSE IF outcome.raises
          THEN /\ chat' = Chat("concepts", "backend", TRUE)
               /\ session' = [session EXCEPT !.concepts = Pop(history)]
               /\ UNCHANGED story
          ELSE /\ chat' = Chat("concepts", "", TRUE)
               /\ IF analysis_results # <<>> /\ definitions # <<>>
                  THEN /\ session' = [session EXCEPT !.concepts =
                              Append(analysed, AssistantMessage(
                                  FormatConceptDefinitionSummary(definitions)))]
                       /\ story' = ApplyConceptDefinitions(story, analysis_results,
                                                           definitions)
                  ELSE /\ session' = [session EXCEPT !.concepts = analysed]
                       /\ UNCHANGED story
       /\ UNCHANGED <<project, chapter_drafts>>

\* A Character row of chat_interface.py, the columns the flow touches
CharacterRow(name, role_in_story, character_description, is_supporting) ==
    [name |-> name, role_in_story |-> role_in_story,
     character_description |-> character_description,
     is_supporting |-> is_supporting]

\* existing.get(key): the last supporting character of that name, else the
\* first character of that name; 0 when there is none
ExistingCharacter(characters, key) ==
    LET named == {i \in 1..Len(characters) :
                     /\ characters[i].name # <<>>
                     /\ Casefold(Strip(characters[i].name)) = key}
        supporting == {i \in named : characters[i].is_supporting}
    IN IF named = {} THEN 0
       ELSE IF supporting # {}
       THEN CHOOSE i \in supporting : \A j \in supporting : j <= i
       ELSE CHOOSE i \in named : \A j \in named : i <= j

SupportingRole == <<"Supporting character">>

RECURSIVE ApplySupportingCharacterUpdates(_, _)
\* _apply_supporting_character_updates: the characters afterwards
ApplySupportingCharacterUpdates(characters, characters_data) ==
    IF characters_data = <<>> THEN characters
    ELSE LET entry == Head(characters_data)
             name == NormaliseWhitespace(entry.name)
             description == Strip(entry.description)
             at == ExistingCharacter(characters, Casefold(name))
             after ==
                IF name = <<>> \/ description = <<>> THEN characters
                ELSE IF at = 0
                THEN Append(characters,
                            CharacterRow(name, SupportingRole, description, TRUE))
                ELSE IF ~characters[at].is_supporting THEN characters
                ELSE [characters EXCEPT
                        ![at].role_in_story =
                            IF @ = <<>> THEN SupportingRole ELSE @,
                        ![at].character_description = description]
         IN ApplySupportingCharacterUpdates(after, Tail(characters_data))

\* What _generate_supporting_characters returned
Supporting(assistant_reply, parsed_characters) ==
    [assistant_reply |-> assistant_reply, parsed_characters |-> parsed_characters]

DefaultSupportingMessage ==
    <<"Review the acts and suggest any supporting characters who need quick reference profiles.">>

\* chat_type "supporting"
ChatSupporting(message, outcome) ==
    LET additional_guidance == Strip(message)
        history ==
            Append(session.supporting,
                   UserMessage(IF additional_guidance # <<>>
                               THEN additional_guidance
                               ELSE DefaultSupportingMessage))
    IN /\ ChatPosted
       /\ IF \A a \in Acts : Strip(story.act_outline[a]) = <<>>
          THEN /\ chat' = Chat("supporting", "acts", FALSE)
               /\ UNCHANGED <<session, story>>
          ELSE IF outcome.raises
          THEN /\ chat' = Chat("supporting", "backend", TRUE)
               /\ session' = [session EXCEPT !.supporting = Pop(history)]
               /\ UNCHANGED story
          ELSE /\ chat' = Chat("supporting", "", TRUE)
               /\ session' = [session EXCEPT !.supporting =
                      Append(history, AssistantMessage(
                          OrNoReply(Strip(outcome.value.assistant_reply))))]
               /\ story' = [story EXCEPT !.characters =
                      ApplySupportingCharacterUpdates(
                          @, outcome.value.parsed_characters)]
       /\ UNCHANGED <<project, chapter_drafts>>

----------------------------------------------------------------------------
(* Chapter drafting: _execute_chapter_draft_generation and _save_chapter_draft *)

\* A ChapterDraft row; a NULL column is the empty text
ChapterDraft(act_number, chapter_number, title, outline_summary, content) ==
    [act_number |-> act_number, chapter_number |-> chapter_number,
     title |-> title, outline_summary |-> outline_summary, content |-> content]

\* _collect_project_chapter_lists(project), each act as _load_chapter_list
\* leaves it
CollectProjectChapterLists(p) ==
    [a \in Acts |-> LoadChapterList(p.chapter_list[a], p.chapters[a])]

Found(raised, found, entry) == [raised |-> raised, found |-> found, entry |-> entry]

\* A lookup that takes the first entry of the act, whatever its number
FindChapterOutlineEntryAnyNumber(p, act_number, chapter_number) ==
    LET chapter_lists == CollectProjectChapterLists(p)
        entries == IF act_number \in Acts
                   THEN chapter_lists[act_number].entries ELSE <<>>
    IN IF \E a \in Acts : chapter_lists[a].raised # "" THEN Found(TRUE, FALSE, <<>>)
       ELSE IF entries = <<>> THEN Found(FALSE, FALSE, <<>>)
       ELSE Found(FALSE, TRUE, entries[1])

\* _find_chapter_outline_entry: the first entry of the act numbered
\* chapter_number, or None
FindChapterOutlineEntry(p, act_number, chapter_number) ==
    LET first(entries, hits) ==
            IF hits = {} THEN Found(FALSE, FALSE, <<>>)
            ELSE Found(FALSE, TRUE,
                       entries[CHOOSE i \in hits : \A j \in hits : i <= j])
        numbered(entries) ==
            first(entries,
                  {i \in 1..Len(entries) : entries[i].number = chapter_number})
        collected(chapter_lists) ==
            IF \E a \in Acts : chapter_lists[a].raised # ""
            THEN Found(TRUE, FALSE, <<>>)
            ELSE numbered(IF act_number \in Acts
                          THEN chapter_lists[act_number].entries ELSE <<>>)
    IN collected(CollectProjectChapterLists(p))

\* A save that always adds a row
SaveChapterDraftAdding(drafts, act_number, chapter_number, outline_entry, content) ==
    Append(drafts, ChapterDraft(act_number, chapter_number,
                                Strip(outline_entry.title),
                                Strip(outline_entry.summary), Strip(content)))

\* _save_chapter_draft: the row of the key is updated, or one is added
SaveChapterDraft(drafts, act_number, chapter_number, outline_entry, content) ==
    LET hits == {i \in 1..Len(drafts) :
                    /\ drafts[i].act_number = act_number
                    /\ drafts[i].chapter_number = chapter_number}
        row == ChapterDraft(act_number, chapter_number,
                            Strip(outline_entry.title),
                            Strip(outline_entry.summary), Strip(content))
    IN IF hits = {} THEN Append(drafts, row)
       ELSE [drafts EXCEPT ![CHOOSE i \in hits : \A j \in hits : i <= j] = row]

\* user_display_message of _execute_chapter_draft_generation
DisplayMessage(act_number, chapter_number, outline_entry, additional_guidance, context_count) ==
    Strip(Join(
        <<<<"Draft Act", "SP">> \o IntToStr(act_number) \o <<",", "SP", "Chapter", "SP">>
              \o IntToStr(chapter_number),
          Strip(<<"Outline:", "SP">>
                \o (IF outline_entry.title = <<>>
                    THEN <<"Untitled">> ELSE outline_entry.title)
                \o <<"SP", "EM", "SP">>
                \o (IF outline_entry.summary = <<>>
                    THEN <<"(no summary)">> ELSE outline_entry.summary))>>
        \o (IF additional_guidance # <<>>
            THEN <<<<>>, <<"Author notes:">>, additional_guidance>> ELSE <<>>)
        \o (IF context_count > 0
            THEN <<<<>>, <<"Include continuity from the most recent", "SP">>
                         \o IntToStr(context_count) \o <<"SP", "chapter(s).">>>>
            ELSE <<>>),
        <<"NL">>))

\* What _execute_chapter_draft_generation leaves: its error ("" if none),
\* whether the backend was invoked, the draft history and the drafts
Executed(error, invoked, history, drafts) ==
    [error |-> error, invoked |-> invoked, history |-> history, drafts |-> drafts]

\* _execute_chapter_draft_generation; outcome is the backend's answer to
\* _generate_chapter_draft
ExecuteChapterDraftGeneration(p, draft_history, drafts, act_number, chapter_number, context_count, additional_guidance, outcome) ==
    LET generated(entry, history, clean_reply) ==
            IF outcome.raises
            THEN Executed("backend", TRUE, Pop(history), drafts)
            ELSE Executed("", TRUE, Append(history, AssistantMessage(clean_reply)),
                          SaveChapterDraft(drafts, act_number, chapter_number,
                                           entry, clean_reply))
        looked_up(found) ==
            IF found.raised THEN Executed("raised", FALSE, draft_history, drafts)
            ELSE IF ~found.found THEN Executed("plan", FALSE, draft_history, drafts)
            ELSE generated(found.entry,
                           Append(draft_history,
                                  UserMessage(DisplayMessage(act_number,
                                      chapter_number, found.entry,
                                      additional_guidance, context_count))),
                           OrNoReply(Strip(outcome.value)))
    IN looked_up(FindChapterOutlineEntry(p, act_number, chapter_number))

DefaultDraftContextCount == 2

\* chat_type "drafts": the three numbers of the form are checked, then the
\* draft is generated and saved
ChatDrafts(act_raw, chapter_raw, context_raw, message, outcome) ==
    LET executed(draft_result) ==
            /\ chat' = Chat("drafts", draft_result.error, draft_result.invoked)
            /\ session' = [session EXCEPT !.drafts = draft_result.history]
            /\ chapter_drafts' = draft_result.drafts
        refused(field) ==
            /\ chat' = Chat("drafts", field, FALSE)
            /\ UNCHANGED <<session, chapter_drafts>>
        checked(act, chapter, context) ==
            IF act.error # "" \/ act.n <= 0 THEN refused("act")
            ELSE IF chapter.error # "" \/ chapter.n <= 0 THEN refused("chapter")
            ELSE IF context.error # "" \/ context.n < 0 THEN refused("context")
            ELSE executed(ExecuteChapterDraftGeneration(project, session.drafts,
                              chapter_drafts, act.n, chapter.n, context.n,
                              Strip(message), outcome))
        stripped(context_text) ==
            checked(IntOfStr(Strip(act_raw)), IntOfStr(Strip(chapter_raw)),
                    IF context_text = <<>>
                    THEN Coerced("", DefaultDraftContextCount)
                    ELSE IntOfStr(context_text))
    IN /\ ChatPosted
       /\ stripped(Strip(context_raw))
       /\ UNCHANGED <<project, story>>

\* "reset" in the form: the history of the chat type is dropped
ChatReset(chat_type) ==
    /\ ChatPosted
    /\ session' = [session EXCEPT ![chat_type] = <<>>]
    /\ chat' = Chat(chat_type, "", FALSE)
    /\ UNCHANGED <<project, story, chapter_drafts>>

----------------------------------------------------------------------------
(* The chat forms of one project, posted in any order *)

\* A generation whose three acts all carry the given plan
PlanGeneration(entries) ==
    Generation([a \in Acts |-> RenderChapterEntries(entries)],
               [a \in Acts |-> SerialiseChapterEntries(entries)])

\* The project of the session: new, or with an outline, two acts and a
\* one-chapter plan from earlier requests
ChatProjects ==
    {[project |-> NewProject, story |-> NewStory],
     [project |-> Committed(NewProject, PlanGeneration(<<EntryOne>>).texts,
                            PlanGeneration(<<EntryOne>>).structures),
      story |-> [NewStory EXCEPT !.outline = <<"a">>,
                                 !.act_final_notes = <<"a">>,
                                 !.act_outline = [a \in Acts |->
                                     IF a = 3 THEN <<>> ELSE <<"a">>]]]}

OutlineOutcomes == {Failure, Success(<<>>), Success(<<"SP", "b">>)}
ActOutcomes == {Failure, Success(<<<<"a">>, <<"SP", "b">>, <<>>>>)}
ChapterOutcomes ==
    {Failure, Success(PlanGeneration(<<EntryOne, EntryTwo>>)),
     Success(Generation([a \in Acts |-> Garbage], [a \in Acts |-> <<>>]))}
ConceptOutcomes ==
    {Failure, Success(Analysis(<<>>, <<>>)),
     Success(Analysis(<<Issue(<<"A", "b">>, <<"b">>)>>,
                      <<Definition(<<"a", "b">>, <<"a">>, <<<<"b">>>>),
                        Definition(<<"b">>, <<>>, <<>>)>>))}
SupportingOutcomes ==
    {Failure,
     Success(Supporting(<<"b", "SP">>,
                        <<[name |-> <<"A", "SP", "SP", "b">>,
                           description |-> <<"a">>]>>)),
     Success(Supporting(<<>>, <<[name |-> <<"a", "SP", "B">>,
                                 description |-> <<"b">>]>>))}
DraftOutcomes == {Failure, Success(<<>>), Success(<<"b", "SP">>)}

ActTexts == {<<"1">>, <<"4">>, <<"a">>}
ChapterTexts == {<<"0">>, <<"1">>, <<"SP", "2">>, <<>>}
ContextTexts == {<<>>, <<"1">>, <<"-", "1">>}

InitChats ==
    /\ InitPure
    /\ db = <<>> /\ reply = <<>>
    /\ \E p \in ChatProjects : project = p.project /\ story = p.story
    /\ session = [t \in ChatTypes |-> <<>>]
    /\ chapter_drafts = <<>>
    /\ chat = NoChat
    /\ results = <<>>
    /\ structured_results = <<>>
    /\ all_valid = TRUE
    /\ chapter_error = ""
    /\ chapter_warning = FALSE
    /\ finals = <<>>
    /\ verdicts = <<>>
    /\ requests = 0
    /\ backend = AppResponses
    /\ pc = "idle"
    /\ eng = NoEngine
    /\ ret = NoReturn
    /\ calls = 0
    /\ log = <<>>
    /\ raised_at = 0

NextChats ==
    \/ \E message \in Messages, outcome \in OutlineOutcomes :
          ChatOutline(message, outcome)
    \/ \E message \in Messages, outcome \in ActOutcomes :
          ChatActs(message, outcome)
    \/ \E chapters_per_act \in 0..1, message \in Messages,
          outcome \in ChapterOutcomes :
          ChatChapters(chapters_per_act, message, outcome)
    \/ \E message \in Messages, outcome \in ConceptOutcomes :
          ChatConcepts(message, outcome)
    \/ \E message \in Messages, outcome \in SupportingOutcomes :
          ChatSupporting(message, outcome)
    \/ \E act_raw \in ActTexts, chapter_raw \in ChapterTexts,
          context_raw \in ContextTexts, message \in Messages,
          outcome \in DraftOutcomes :
          ChatDrafts(act_raw, chapter_raw, context_raw, message, outcome)
    \/ \E chat_type \in ChatTypes : ChatReset(chat_type)

SpecChats == InitChats /\ [][NextChats]_vars

\* A step of a chat flow whose backend call raised
BackendRaised ==
    /\ chat'.invoked
    /\ chat'.error = "backend"
    /\ \/ \E message \in Messages : ChatOutline(message, Failure)
       \/ \E message \in Messages : ChatActs(message, Failure)
       \/ \E chapters_per_act \in 0..1, message \in Messages :
             ChatChapters(chapters_per_act, message, Failure)
       \/ \E message \in Messages : ChatConcepts(message, Failure)
       \/ \E message \in Messages : ChatSupporting(message, Failure)
       \/ \E act_raw \in ActTexts, chapter_raw \in ChapterTexts,
             context_raw \in ContextTexts, message \in Messages :
             ChatDrafts(act_raw, chapter_raw, context_raw, message, Failure)

\* C24: when the backend call of a chat flow raises, the user's message the
\* flow had appended is removed again: every session history is what it was
\* before the request, and the stored plan, the other project columns, the
\* concepts, the characters and the saved drafts are unchanged
C24_FailedChatLeavesNoTrace ==
    [][BackendRaised =>
          /\ session' = session
          /\ project' = project
          /\ story' = story
          /\ chapter_drafts' = chapter_drafts]_vars

\* A draft request failed in the backend after an earlier one had left its
\* two messages in the history
C24_Witness ==
    /\ chat = Chat("drafts", "backend", TRUE)
    /\ Len(session.drafts) = 2
    /\ Len(chapter_drafts) = 1


\* The stored plan has no entry numbered chapter_number in act act_number
Unplanned(p, act_number, chapter_number) ==
    \/ act_number \notin Acts
    \/ \A i \in 1..Len(CollectProjectChapterLists(p)[act_number].entries) :
          CollectProjectChapterLists(p)[act_number].entries[i].number
              # chapter_number

\* C25: a draft request for an act and chapter the stored plan has no entry
\* for is answered with an error; the backend is not invoked, nothing is
\* added to the draft history and no ChapterDraft is created or modified.
\* Stated per step: a drafts step either has all of that, or is the step of
\* no request for an unplanned chapter
C25_UnplannedChapterRefused ==
    [][chat'.chat_type = "drafts" =>
          \/ /\ chat'.error # ""
             /\ ~chat'.invoked
             /\ session' = session
             /\ chapter_drafts' = chapter_drafts
          \/ \A act_raw \in ActTexts, chapter_raw \in ChapterTexts :
                Unplanned(project, IntOfStr(act_raw).n, IntOfStr(chapter_raw).n)
                => \A context_raw \in ContextTexts, message \in Messages,
                      outcome \in DraftOutcomes :
                      ~ChatDrafts(act_raw, chapter_raw, context_raw, message,
                                  outcome)]_vars

\* With a draft saved and its messages in the history, a chapter that is not
\* in the plan was requested
C25_Witness ==
    /\ chat = Chat("drafts", "plan", FALSE)
    /\ chapter_drafts # <<>>
    /\ session.drafts # <<>>

\* The rows of drafts saved for the act and chapter
DraftsOf(drafts, act_number, chapter_number) ==
    SelectSeq(drafts, LAMBDA d : /\ d.act_number = act_number
                                 /\ d.chapter_number = chapter_number)

\* The rows of drafts saved for any other chapter
OtherDrafts(drafts, act_number, chapter_number) ==
    SelectSeq(drafts, LAMBDA d : \/ d.act_number # act_number
                                 \/ d.chapter_number # chapter_number)

\* The first entry of the stored plan numbered chapter_number in the act
PlannedEntry(p, act_number, chapter_number) ==
    LET entries == CollectProjectChapterLists(p)[act_number].entries
    IN entries[CHOOSE i \in 1..Len(entries) :
                  /\ entries[i].number = chapter_number
                  /\ \A j \in 1..(i - 1) : entries[j].number # chapter_number]

\* No two saved drafts are of the same act and chapter
OneDraftPerChapter ==
    \A i, j \in 1..Len(chapter_drafts) :
        (/\ chapter_drafts[i].act_number = chapter_drafts[j].act_number
         /\ chapter_drafts[i].chapter_number = chapter_drafts[j].chapter_number)
        => i = j

DraftKeys(drafts) ==
    {DraftKey(drafts[i].act_number, drafts[i].chapter_number) :
        i \in 1..Len(drafts)}

\* A lookup keyed by the chapter number alone: a draft counts for every act
CollectChapterDraftPayloadAnyAct(drafts) ==
    [key \in {DraftKey(a, drafts[i].chapter_number) :
                 a \in Acts, i \in 1..Len(drafts)} |->
        LET hits == {i \in 1..Len(drafts) :
                        drafts[i].chapter_number = key[2]}
        IN Strip(drafts[CHOOSE i \in hits : \A j \in hits : j <= i].content)]

\* The lookup of _collect_chapter_draft_payload: the trimmed content of the
\* draft of each key (of the last one, should a key have several)
CollectChapterDraftPayload(drafts) ==
    [key \in DraftKeys(drafts) |->
        LET hits == {i \in 1..Len(drafts) :
                        DraftKey(drafts[i].act_number, drafts[i].chapter_number)
                            = key}
        IN Strip(drafts[CHOOSE i \in hits : \A j \in hits : j <= i].content)]

\* C27: a request that changes the stored plan (a regeneration or a manual
\* edit) leaves the saved drafts as they are, and each chapter of the new
\* plan has a draft in the lookup of the page exactly when a draft of its
\* act and number was saved before the request
C27_PlanChangeKeepsDrafts ==
    [][project' # project =>
          /\ chapter_drafts' = chapter_drafts
          /\ \A a \in Acts :
                \A i \in 1..Len(CollectProjectChapterLists(project')[a].entries) :
                   LET number ==
                           CollectProjectChapterLists(project')[a].entries[i].number
                   IN HasDraft(CollectChapterDraftPayload(chapter_drafts'), a, number)
                      <=> DraftKey(a, number) \in DraftKeys(chapter_drafts)]_vars

\* The plan was regenerated after a chapter had been drafted: the new plan
\* holds the drafted chapter and a chapter that has no draft
C27_Witness ==
    /\ chat = Chat("chapters", "", TRUE)
    /\ chapter_drafts # <<>>
    /\ \E a \in Acts :
          \E i, j \in 1..Len(CollectProjectChapterLists(project)[a].entries) :
             LET entries == CollectProjectChapterLists(project)[a].entries
             IN /\ DraftKey(a, entries[i].number) \in DraftKeys(chapter_drafts)
                /\ DraftKey(a, entries[j].number) \notin DraftKeys(chapter_drafts)


----------------------------------------------------------------------------
(* project_update_chapter_plan, from the JSON body on *)

\* The whole handler: act_number and chapter_number of the body are coerced
\* with int(), TypeError and ValueError are answered with 422 and any other
\* exception leaves the handler; then the edit is checked and stored
PatchChapterPlan(act_value, chapter_value, title_raw, summary_raw) ==
    LET caught == {"TypeError", "ValueError"}
        edited(r) ==
            /\ chat' = Chat("plan", IF r.ok THEN "" ELSE "rejected", FALSE)
            /\ project' = r.project
        coerced(act, chapter) ==
            IF act.error \in caught \/ (act.error = "" /\ chapter.error \in caught)
            THEN /\ chat' = Chat("plan", "numbers", FALSE)
                 /\ UNCHANGED project
            ELSE IF act.error # "" \/ chapter.error # ""
            THEN /\ chat' = Chat("plan", "raised", FALSE)
                 /\ UNCHANGED project
            ELSE edited(EditResult(project, act.n, chapter.n, title_raw,
                                   summary_raw))
    IN /\ ChatPosted
       /\ coerced(IntOf(act_value), IntOf(chapter_value))
       /\ UNCHANGED <<session, story, chapter_drafts>>

\* The numbers a body may carry: integers, numeric and other strings, null,
\* and a number int() cannot convert
ActValues ==
    {JInt(1), JInt(2), JInt(4), JStr(<<"3">>), JStr(<<"a">>), JOther("null")}
ChapterValues ==
    {JInt(0), JInt(1), JInt(2), JStr(<<"a">>), JOther("inf")}

\* The request is one the handler rejects: a number that is missing or not
\* numeric, an act outside 1..3, a chapter number that is not positive, a
\* blank title or summary, an act without loadable entries, or an act with
\* no entry of that number
Rejected(p, act_value, chapter_value, title_raw, summary_raw) ==
    LET act == IntOf(act_value)
        chapter == IntOf(chapter_value)
    IN \/ act.error # ""
       \/ chapter.error # ""
       \/ act.n \notin 1..3
       \/ chapter.n <= 0
       \/ Strip(title_raw) = <<>>
       \/ Strip(summary_raw) = <<>>
       \/ CollectProjectChapterLists(p)[act.n].entries = <<>>
       \/ \A i \in 1..Len(CollectProjectChapterLists(p)[act.n].entries) :
             CollectProjectChapterLists(p)[act.n].entries[i].number # chapter.n

\* C28: a manual edit of the plan that is rejected, for any of the reasons
\* the handler rejects one, stores nothing: the serialised list and the
\* rendered text of every act are what they were. Stated per step: an edit
\* step either stored nothing and answered an error, or is the step of no
\* request with a reason for rejection
C28_RejectedEditStoresNothing ==
    [][chat'.chat_type = "plan" =>
          \/ /\ project' = project
             /\ chat'.error # ""
          \/ \A act_value \in ActValues, chapter_value \in ChapterValues,
                title_raw \in EditTitles, summary_raw \in EditSummaries :
                Rejected(project, act_value, chapter_value, title_raw,
                         summary_raw)
                => ~PatchChapterPlan(act_value, chapter_value, title_raw,
                                     summary_raw)]_vars

\* An edit of a chapter the stored plan of the act does not hold was
\* rejected while the act has a plan
C28_Witness ==
    /\ chat = Chat("plan", "rejected", FALSE)
    /\ \A a \in Acts : CollectProjectChapterLists(project)[a].entries # <<>>

----------------------------------------------------------------------------
(* The chat forms and the manual edits of one project, in any order *)

NextPlans ==
    \/ NextChats
    \/ \E act_value \in ActValues, chapter_value \in ChapterValues,
          title_raw \in EditTitles, summary_raw \in EditSummaries :
          PatchChapterPlan(act_value, chapter_value, title_raw, summary_raw)

SpecPlans == InitChats /\ [][NextPlans]_vars


----------------------------------------------------------------------------
(* The other routes of the projects blueprint *)

\* PROJECT_STEPS, the step ids
StepIds == <<"outline", "characters", "act_outline">>

\* next((i for i, step in enumerate(PROJECT_STEPS) if step[0] == current_step), 0),
\* counted from 1
CurrentIndex(current_step) ==
    IF \E i \in 1..Len(StepIds) : StepIds[i] = current_step
    THEN CHOOSE i \in 1..Len(StepIds) : StepIds[i] = current_step
    ELSE 1

\* An advance that leaves every project in progress
AdvancedInProgress(row) ==
    IF CurrentIndex(row.current_step) < Len(StepIds)
    THEN [row EXCEPT !.current_step = StepIds[CurrentIndex(row.current_step) + 1],
                     !.status = "in_progress"]
    ELSE row

\* The project row after advance
Advanced(row) ==
    IF CurrentIndex(row.current_step) < Len(StepIds)
    THEN [row EXCEPT
            !.current_step = StepIds[CurrentIndex(row.current_step) + 1],
            !.status = IF StepIds[CurrentIndex(row.current_step) + 1]
                          # StepIds[Len(StepIds)]
                       THEN "in_progress" ELSE "complete"]
    ELSE row

\* One more request of the app package: only db and reply may change
Counted ==
    /\ requests < MaxRequests
    /\ requests' = requests + 1
    /\ UNCHANGED <<project, pc, eng, ret, results, structured_results, all_valid,
                   chapter_error, chapter_warning, backend, calls, log,
                   raised_at, finals, verdicts, pureVars, chatVars>>

\* The answer of a route to a request it refuses
Refusal(route, user, project_id) ==
    /\ reply' = Reply(route, user, project_id, Refused(user, project_id), <<>>)
    /\ UNCHANGED db

\* POST /<project_id>/advance
Advance(user, project_id) ==
    /\ Counted
    /\ IF Refused(user, project_id) # 0 THEN Refusal("advance", user, project_id)
       ELSE /\ db' = [db EXCEPT !.projects[project_id] = Advanced(@)]
            /\ reply' = Reply("advance", user, project_id, 302,
                              IF CurrentIndex(db.projects[project_id].current_step)
                                     < Len(StepIds)
                              THEN <<"success">> ELSE <<"info">>)

\* POST /<project_id>/reset
Reset(user, project_id) ==
    /\ Counted
    /\ IF Refused(user, project_id) # 0 THEN Refusal("reset", user, project_id)
       ELSE /\ db' = [db EXCEPT !.projects[project_id].current_step = StepIds[1],
                                !.projects[project_id].status = "draft"]
            /\ reply' = Reply("reset", user, project_id, 302, <<"info">>)

\* A ProjectStage row
StageRow(project_id, stage, system_prompt, user_prompt, generated_text, used_fallback) ==
    [project_id |-> project_id, stage |-> stage, system_prompt |-> system_prompt,
     user_prompt |-> user_prompt, generated_text |-> generated_text,
     used_fallback |-> used_fallback]

\* The stage row of the project is overwritten, or one is added
StoreStage(stages, row) ==
    LET hits == {i \in 1..Len(stages) : /\ stages[i].project_id = row.project_id
                                        /\ stages[i].stage = row.stage}
    IN IF hits = {} THEN Append(stages, row)
       ELSE [stages EXCEPT ![CHOOSE i \in hits : \A j \in hits : i <= j] = row]

\* STAGE_GENERATION_STEPS[stage]["system_prompt"]
DefaultSystemPrompt(stage) == <<"system prompt of", stage>>

\* What generate_stage_content returned: the text and used_fallback
StageContent(text, used_fallback) == [text |-> text, used_fallback |-> used_fallback]

\* POST /<project_id>/stage-content; outcome is what generate_stage_content
\* does, a StageGenerationError or a result
GenerateStage(user, project_id, stage, prompt, system_prompt, outcome) ==
    LET effective_system_prompt ==
            IF Strip(system_prompt) # <<>> THEN Strip(system_prompt)
            ELSE DefaultSystemPrompt(stage)
        entry == StageRow(project_id, stage, effective_system_prompt,
                          Strip(prompt), outcome.value.text,
                          outcome.value.used_fallback)
    IN /\ Counted
       /\ IF Refused(user, project_id) # 0
          THEN Refusal("generate_stage", user, project_id)
          ELSE IF stage \notin {StepIds[i] : i \in 1..Len(StepIds)}
                  \/ outcome.raises
          THEN /\ reply' = Reply("generate_stage", user, project_id, 400, <<>>)
               /\ UNCHANGED db
          ELSE /\ reply' = Reply("generate_stage", user, project_id, 200, entry)
               /\ db' = [db EXCEPT !.stages = StoreStage(@, entry)]

\* POST /<project_id>/character-profile: nothing is stored
GenerateCharacterProfile(user, project_id, prompt, config, generator) ==
    LET result == DraftCharacterProfile(prompt, db.projects[project_id].title,
                                        config, generator)
    IN /\ Counted
       /\ IF Refused(user, project_id) # 0
          THEN Refusal("generate_character_profile", user, project_id)
          ELSE /\ reply' = Reply("generate_character_profile", user, project_id,
                                 IF result.error # "" THEN 400 ELSE 200,
                                 [profile |-> result.profile,
                                  used_fallback |-> result.used_fallback])
               /\ UNCHANGED db

\* POST /<project_id>/concepts, as one of the requests counted
PostConcepts(user, project_id, payload, templates, generator) ==
    /\ Counted
    /\ ConceptsHandled(user, project_id, payload, templates, generator)

\* The forms of the detail page; a request carries one of them, or none (GET)
PageForm == [form |-> "get"]
OutlineRequestForm(prompt, outcome) ==
    [form |-> "outline", prompt |-> prompt, outcome |-> outcome]
OutlineDraftForm(outline_id, title, content) ==
    [form |-> "edit_outline", outline_id |-> outline_id, title |-> title,
     content |-> content]
ActOutlineForm(act_id, sequence, title, summary, turning_points, notes) ==
    [form |-> "act", act_id |-> act_id, sequence |-> sequence, title |-> title,
     summary |-> summary, turning_points |-> turning_points, notes |-> notes]
CharacterProfileForm(character_id, name, role, background, goals, conflict, notes) ==
    [form |-> "character", character_id |-> character_id, name |-> name,
     role |-> role, background |-> background, goals |-> goals,
     conflict |-> conflict, notes |-> notes]

\* ActOutline and CharacterProfile rows
ActRow(id, project_id, form, sequence) ==
    [id |-> id, project_id |-> project_id, sequence |-> sequence,
     title |-> Strip(form.title), summary |-> Strip(form.summary),
     turning_points |-> Strip(form.turning_points), notes |-> Strip(form.notes)]
ProfileRow(id, project_id, form) ==
    [id |-> id, project_id |-> project_id, name |-> Strip(form.name),
     role |-> Strip(form.role), background |-> Strip(form.background),
     goals |-> Strip(form.goals), conflict |-> Strip(form.conflict),
     notes |-> Strip(form.notes)]

\* query.filter_by(id=id, project_id=project_id).first(): its index, or 0
RowIndex(table, id, project_id) ==
    IF \E i \in 1..Len(table) : table[i].id = id /\ table[i].project_id = project_id
    THEN CHOOSE i \in 1..Len(table) :
            table[i].id = id /\ table[i].project_id = project_id
    ELSE 0

\* validate_on_submit(): the fields with InputRequired carry data
FormValid(form) ==
    CASE form.form = "outline" -> form.prompt # <<>>
      [] form.form = "edit_outline" -> form.title # <<>> /\ form.content # <<>>
      [] form.form = "act" -> /\ form.title # <<>> /\ form.summary # <<>>
                              /\ form.sequence \in 0..20
      [] form.form = "character" -> form.name # <<>>
      [] OTHER -> FALSE

Answered(status, flash, tables) == [status |-> status, flash |-> flash, db |-> tables]

\* The outline request form: the seed is remembered, and a draft is added
\* when generate_story_outline returns one
OutlineRequested(project_id, form) ==
    LET remembered == [db EXCEPT !.projects[project_id].last_outline_prompt =
                                     Strip(form.prompt)]
        count == Len(RowsOf(db.outlines, project_id))
        draft == OutlineRow(Len(db.outlines) + 1, project_id,
                            <<"Outline draft", "SP">> \o IntToStr(count + 1),
                            form.outcome.value)
    IN IF form.outcome.raises THEN Answered(200, <<"danger">>, remembered)
       ELSE Answered(302, <<"success">>,
                     [remembered EXCEPT !.outlines = Append(@, draft)])

\* The outline edit form
OutlineEdited(project_id, form) ==
    LET at == RowIndex(db.outlines, form.outline_id, project_id)
    IN IF form.outline_id = 0 THEN Answered(200, <<"warning">>, db)
       ELSE IF at = 0 THEN Answered(200, <<"danger">>, db)
       ELSE Answered(302, <<"success">>,
                     [db EXCEPT !.outlines[at].title = Strip(form.title),
                                !.outlines[at].content = Strip(form.content)])

\* The act form: the act selected is updated, or one is added
ActSaved(project_id, form) ==
    LET at == RowIndex(db.acts, form.act_id, project_id)
    IN IF form.act_id # 0
       THEN IF at = 0 THEN Answered(200, <<"danger">>, db)
            ELSE Answered(302, <<"success">>,
                          [db EXCEPT !.acts[at] =
                              ActRow(form.act_id, project_id, form,
                                     IF form.sequence # 0 THEN form.sequence
                                     ELSE db.acts[at].sequence)])
       ELSE Answered(302, <<"success">>,
                     [db EXCEPT !.acts =
                         Append(@, ActRow(Len(db.acts) + 1, project_id, form,
                                          IF form.sequence # 0
                                          THEN form.sequence ELSE 1))])

\* The character form: the character selected is updated, or one is added
CharacterSaved(project_id, form) ==
    LET at == RowIndex(db.characters, form.character_id, project_id)
    IN IF form.character_id # 0
       THEN IF at = 0 THEN Answered(200, <<"danger">>, db)
            ELSE Answered(302, <<"success">>,
                          [db EXCEPT !.characters[at] =
                              ProfileRow(form.character_id, project_id, form)])
       ELSE Answered(302, <<"success">>,
                     [db EXCEPT !.characters =
                         Append(@, ProfileRow(Len(db.characters) + 1,
                                              project_id, form))])

\* What detail does for the owner
DetailOutcome(project_id, form) ==
    IF ~FormValid(form) THEN Answered(200, <<>>, db)
    ELSE CASE form.form = "outline" -> OutlineRequested(project_id, form)
           [] form.form = "edit_outline" -> OutlineEdited(project_id, form)
           [] form.form = "act" -> ActSaved(project_id, form)
           [] form.form = "character" -> CharacterSaved(project_id, form)

\* GET or POST /<project_id>
Detail(user, project_id, form) ==
    /\ Counted
    /\ IF Refused(user, project_id) # 0 THEN Refusal("detail", user, project_id)
       ELSE /\ reply' = Reply("detail", user, project_id,
                              DetailOutcome(project_id, form).status,
                              DetailOutcome(project_id, form).flash)
            /\ db' = DetailOutcome(project_id, form).db

----------------------------------------------------------------------------
(* Requests of two users to the routes of the projects blueprint *)

\* The seeded tables after the owner of project 2 advanced it once
RoutesDb == [SeedDb EXCEPT !.projects[2] = Advanced(@)]

StoryOutlineOutcomes == {Failure, Success(<<"b">>)}

\* The forms a request to detail may carry
DetailForms ==
    {PageForm}
    \cup {OutlineRequestForm(<<"a story seed">>, outcome) :
             outcome \in StoryOutlineOutcomes}
    \cup {OutlineRequestForm(<<>>, Failure),
          OutlineDraftForm(0, <<"a">>, <<"b">>),
          OutlineDraftForm(1, <<"b", "SP">>, <<"SP">>),
          ActOutlineForm(0, 0, <<"a">>, <<"b">>, <<>>, <<>>),
          ActOutlineForm(1, 2, <<"b">>, <<"a">>, <<"a">>, <<>>),
          CharacterProfileForm(0, <<"a">>, <<>>, <<>>, <<>>, <<>>, <<>>),
          CharacterProfileForm(1, <<"b">>, <<"a">>, <<>>, <<>>, <<>>, <<>>),
          CharacterProfileForm(0, <<>>, <<"a">>, <<>>, <<>>, <<>>, <<>>)}

StageNames == {"outline", "act_outline", "epilogue"}
StageOutcomes == {Failure, Success(StageContent(<<"b">>, TRUE))}

Requesters == Users \X (ProjectIds \cup {UnknownProject})

InitRoutes ==
    /\ InitApp /\ InitPure /\ InitChat
    /\ backend = AppResponses
    /\ pc = "idle"
    /\ eng = NoEngine
    /\ ret = NoReturn
    /\ calls = 0
    /\ log = <<>>
    /\ raised_at = 0
    /\ db = RoutesDb
    /\ reply = NoReply

NextRoutes ==
    \/ \E r \in Requesters : Advance(r[1], r[2])
    \/ \E r \in Requesters : Reset(r[1], r[2])
    \/ \E r \in Requesters, form \in DetailForms : Detail(r[1], r[2], form)
    \/ \E r \in Requesters, stage \in StageNames, outcome \in StageOutcomes :
          GenerateStage(r[1], r[2], stage, <<"SP", "a">>, <<>>, outcome)
    \/ \E r \in Requesters, prompt \in {<<"a">>, <<"SP">>} :
          GenerateCharacterProfile(r[1], r[2], prompt,
                                   ProfileConfig(TRUE, TRUE, FALSE, AllFields("none")),
                                   ProfileGenerator(FALSE, AllFields(Raises), Raises))
    \/ \E r \in Requesters, payload \in {Payload(JInt(1)), Payload(JInt(4))},
          generator \in {NoGenerator, Generator(Raises, Returns(GenInvalid))} :
          PostConcepts(r[1], r[2], payload, Templates(TRUE, TRUE), generator)

SpecRoutes == InitRoutes /\ [][NextRoutes]_vars

\* The step and the status of every project belong together
StepAndStatus ==
    \A project_id \in DOMAIN db.projects :
        LET row == db.projects[project_id]
        IN \/ row.current_step = "outline" /\ row.status = "draft"
           \/ row.current_step = "characters" /\ row.status = "in_progress"
           \/ row.current_step = "act_outline" /\ row.status = "complete"

\* The step after step, the last step being its own successor
StepAfter(step) ==
    CASE step = "outline" -> "characters"
      [] step = "characters" -> "act_outline"
      [] step = "act_outline" -> "act_outline"

\* C29: the step of a project is always outline, characters or act_outline,
\* with status draft, in_progress and complete respectively; an advance by
\* the owner moves the project one step forward and changes nothing at
\* act_outline; a reset by the owner puts it at outline with status draft
C29_Workflow ==
    /\ []StepAndStatus
    /\ [][(reply'.route = "advance" /\ reply'.status = 302) =>
             LET before == db.projects[reply'.project_id]
                 after == db'.projects[reply'.project_id]
             IN /\ after.current_step = StepAfter(before.current_step)
                /\ before.current_step = "act_outline" => after = before
                /\ after.status = IF after.current_step = "act_outline"
                                  THEN "complete" ELSE "in_progress"]_vars
    /\ [][(reply'.route = "reset" /\ reply'.status = 302) =>
             /\ db'.projects[reply'.project_id].current_step = "outline"
             /\ db'.projects[reply'.project_id].status = "draft"]_vars

\* A project at act_outline was advanced once more
C29_Witness ==
    /\ reply.route = "advance"
    /\ reply.body = <<"info">>
    /\ db.projects[reply.project_id].current_step = "act_outline"
    /\ db.projects[reply.project_id].status = "complete"

\* C30: a request of any route by a user who does not own the project is
\* answered 403 and leaves every table as it was
C30_OwnerOnly ==
    [][(/\ reply'.project_id \in DOMAIN db.projects
        /\ db.projects[reply'.project_id].owner # reply'.user)
       => /\ reply'.status = 403
          /\ db' = db]_vars

\* The other user's reset of a project in progress was refused, and the
\* project is still in progress
C30_Witness ==
    /\ reply.status = 403
    /\ reply.route = "reset"
    /\ db.projects[reply.project_id].status = "in_progress"

====
